---- MODULE Spec2Model ----
(***************************************************************************)
(* A model of libcomp: the encrypted connection state machine              *)
(* (EncryptedConnection.cpp), and the identity cache of persistent objects *)
(* (PersistentObject.cpp).                                                 *)
(*                                                                         *)
(* Bytes are integers 0..255, a packet is a sequence of bytes together     *)
(* with a cursor.  uint32_t arithmetic is done modulo U32; TLC's integers  *)
(* are 32 bit signed, so the modulus is 2^30 instead of 2^32: every size   *)
(* of the model is far below it, and a wrapped value is far above          *)
(* MAX_PACKET_SIZE, as in the program.                                     *)
(***************************************************************************)
EXTENDS Integers, Sequences, FiniteSets, TLC

\* ------------------------------------------------------------------------
\* Widths and program constants
\* ------------------------------------------------------------------------

U32 == 2^30

\* Constants.h is scaled down: the program's packet cap is 16384.
MAX_PACKET_SIZE == 48

\* The Blowfish block size the body of an outer packet is padded to.
BLOWFISH_BLOCK == 8

\* EncryptedConnection::GetHeaderSize: 2 * sizeof(uint32_t).
GetHeaderSize == 8

Min(a, b) == IF a < b THEN a ELSE b

\* ------------------------------------------------------------------------
\* ReadOnlyPacket / Packet: cursor arithmetic and scalar codecs
\* ------------------------------------------------------------------------

\* ReadOnlyPacket::Left: mSize - mPosition, in uint32_t.
Left(size, pos) == (size - pos + U32) % U32

\* ReadOnlyPacket::Skip: TRUE when Skip(sz) at pos throws.
SkipThrows(pos, sz) == sz # 0 /\ MAX_PACKET_SIZE < (pos + sz) % U32

\* ReadOnlyPacket::ReadU16Little at the 0-based position pos.
ReadU16Little(data, pos) == data[pos + 1] + 256 * data[pos + 2]

\* ReadOnlyPacket::ReadU32Big at the 0-based position pos.
ReadU32Big(data, pos) ==
    ((data[pos + 1] * 256 + data[pos + 2]) * 256 + data[pos + 3]) * 256
        + data[pos + 4]

\* Packet::WriteU16Little, WriteU16Big, WriteU32Big: the bytes written.
WriteU16Little(n) == << n % 256, (n \div 256) % 256 >>
WriteU16Big(n) == << (n \div 256) % 256, n % 256 >>
WriteU32Big(n) ==
    << (n \div 16777216) % 256, (n \div 65536) % 256, (n \div 256) % 256,
       n % 256 >>

\* Packet::WriteBlank: n zero bytes.
WriteBlank(n) == [i \in 1..n |-> 0]

\* Packet::WriteString32Big: big endian u32 length, then the bytes.
WriteString32Big(str) == WriteU32Big(Len(str)) \o str

\* The bytes of data from the 0-based position pos, n of them.
Bytes(data, pos, n) == SubSeq(data, pos + 1, pos + n)

\* ------------------------------------------------------------------------
\* Messages handed to the message queue
\* ------------------------------------------------------------------------

\* Message::Packet(self, commandCode, command)
MsgPacket(code, payload) == [type |-> "Packet", code |-> code, data |-> payload]
\* Message::Encrypted(self)
MsgEncrypted == [type |-> "Encrypted", code |-> 0, data |-> << >>]
\* Message::ConnectionClosed(self)
MsgConnectionClosed == [type |-> "ConnectionClosed", code |-> 0, data |-> << >>]

\* ------------------------------------------------------------------------
\* EncryptedConnection::ParsePacket(packet, paddedSize, realSize):
\* the command loop over the decrypted packet `data` (header included).
\* The result: the Packet messages enqueued, whether SocketError was called,
\* whether a PacketException left the function.
\* ------------------------------------------------------------------------

ParseResult(msgs, err, threw) == [msgs |-> msgs, err |-> err, threw |-> threw]

\* Where the command of each message ends in the packet:
\* commandStart + commandSize.
RECURSIVE CommandEnds(_, _)
CommandEnds(msgs, pos) ==
    IF Len(msgs) = 0 THEN << >>
    ELSE << pos + 6 + Len(Head(msgs).data) >>
             \o CommandEnds(Tail(msgs), pos + 6 + Len(Head(msgs).data))

\* The end of the function, after the loop ended without an error.
ParseTail(data, pos, padding, msgs) ==
    IF SkipThrows(pos, padding)
    THEN ParseResult(msgs, FALSE, TRUE)
    ELSE ParseResult(msgs, Left(Len(data), (pos + padding) % U32) # 0, FALSE)

RECURSIVE CommandLoop(_, _, _, _, _)

\* A loop that steps over a command whose size is below its header's instead
\* of raising an error.
CommandLoopLenient(data, pos, padding, haveQueue, msgs) ==
    IF ~(Left(Len(data), pos) > padding)
    THEN ParseTail(data, pos, padding, msgs)
    ELSE IF Left(Len(data), pos) < 6
    THEN ParseResult(msgs, TRUE, FALSE)
    ELSE LET commandStart == pos + 2
             commandSize == ReadU16Little(data, commandStart)
             commandCode == ReadU16Little(data, commandStart + 2)
         IN IF commandSize < 4
            THEN CommandLoop(data, commandStart + 4, padding, haveQueue, msgs)
            ELSE IF Left(Len(data), commandStart + 4) < commandSize - 4
            THEN ParseResult(msgs, TRUE, FALSE)
            ELSE IF ~haveQueue
            THEN ParseResult(msgs, TRUE, FALSE)
            ELSE CommandLoop(data, commandStart + commandSize, padding,
                     haveQueue,
                     Append(msgs, MsgPacket(commandCode,
                         Bytes(data, commandStart + 4, commandSize - 4))))

\* A loop that takes the payload from the start of the command.
CommandLoopPayloadAtStart(data, pos, padding, haveQueue, msgs) ==
    IF ~(Left(Len(data), pos) > padding)
    THEN ParseTail(data, pos, padding, msgs)
    ELSE IF Left(Len(data), pos) < 6
    THEN ParseResult(msgs, TRUE, FALSE)
    ELSE LET commandStart == pos + 2
             commandSize == ReadU16Little(data, commandStart)
             commandCode == ReadU16Little(data, commandStart + 2)
         IN IF commandSize < 4
            THEN ParseResult(msgs, TRUE, FALSE)
            ELSE IF Left(Len(data), commandStart + 4) < commandSize - 4
            THEN ParseResult(msgs, TRUE, FALSE)
            ELSE IF ~haveQueue
            THEN ParseResult(msgs, TRUE, FALSE)
            ELSE CommandLoop(data, commandStart + commandSize, padding,
                     haveQueue,
                     Append(msgs, MsgPacket(commandCode,
                         Bytes(data, commandStart, commandSize - 4))))

CommandLoop(data, pos, padding, haveQueue, msgs) ==
    IF ~(Left(Len(data), pos) > padding)
    THEN ParseTail(data, pos, padding, msgs)
    ELSE IF Left(Len(data), pos) < 6
    THEN ParseResult(msgs, TRUE, FALSE)
    ELSE LET commandStart == pos + 2
             commandSize == ReadU16Little(data, commandStart)
             commandCode == ReadU16Little(data, commandStart + 2)
         IN IF commandSize < 4
            THEN ParseResult(msgs, TRUE, FALSE)
            ELSE IF Left(Len(data), commandStart + 4) < commandSize - 4
            THEN ParseResult(msgs, TRUE, FALSE)
            ELSE IF ~haveQueue
            THEN ParseResult(msgs, TRUE, FALSE)
            ELSE CommandLoop(data, commandStart + commandSize, padding,
                     haveQueue,
                     Append(msgs, MsgPacket(commandCode,
                         Bytes(data, commandStart + 4, commandSize - 4))))

ParsePacketSized(data, paddedSize, realSize, haveQueue) ==
    CommandLoop(data, GetHeaderSize, (paddedSize - realSize + U32) % U32,
        haveQueue, << >>)

\* ------------------------------------------------------------------------
\* Crypto: Blowfish and Diffie-Hellman, scaled down to one byte keys
\* ------------------------------------------------------------------------

\* ASCII codes of the hexadecimal digits 0-9, A-F.
HexChar(d) == IF d < 10 THEN 48 + d ELSE 55 + d

HexValue(ch) ==
    IF ch >= 48 /\ ch <= 57 THEN ch - 48
    ELSE IF ch >= 65 /\ ch <= 70 THEN ch - 55
    ELSE -1

RECURSIVE ToHex(_)
ToHex(n) == IF n < 16 THEN << HexChar(n) >>
            ELSE Append(ToHex(n \div 16), HexChar(n % 16))

\* BN_hex2bn: the number a hexadecimal string denotes, -1 when it is none.
RECURSIVE FromHex(_)
FromHex(str) ==
    IF Len(str) = 0 THEN -1
    ELSE LET d == HexValue(str[Len(str)])
         IN IF d < 0 THEN -1
            ELSE IF Len(str) = 1 THEN d
            ELSE LET hi == FromHex(SubSeq(str, 1, Len(str) - 1))
                 IN IF hi < 0 THEN -1 ELSE hi * 16 + d

\* String::RightJustified(width, '0')
RECURSIVE RightJustified(_, _)
RightJustified(str, width) ==
    IF Len(str) >= width THEN str ELSE RightJustified(<< 48 >> \o str, width)

RECURSIVE ModExp(_, _, _)
ModExp(b, e, m) == IF e = 0 THEN 1 % m ELSE (b * ModExp(b, e - 1, m)) % m

\* DH_BASE_STRING "2" and the configured prime, as strings of ASCII codes.
DH_BASE_STRING == << 50 >>
DH_PRIME_HEX == << 49, 55 >>
DH_KEY_HEX_SIZE == Len(DH_PRIME_HEX)

\* The private exponents a key generation may draw.
DhPrivates == {3, 5}

\* A key pair: the prime (0 when loading it failed) and the private exponent.
NoDiffieHellman == [prime |-> 0, priv |-> 0]

\* TcpServer::LoadDiffieHellman(prime), with the private exponent the later
\* key generation draws.
LoadDiffieHellman(primeHex, priv) ==
    IF DH_KEY_HEX_SIZE = Len(primeHex) /\ FromHex(primeHex) > 3
    THEN [prime |-> FromHex(primeHex), priv |-> priv]
    ELSE NoDiffieHellman

\* TcpConnection::GetDiffieHellmanPrime
GetDiffieHellmanPrime(dh) == ToHex(dh.prime)

\* TcpConnection::GenerateDiffieHellmanPublic: base^priv mod prime in hex,
\* the empty string without a key pair.
GenerateDiffieHellmanPublic(dh) ==
    IF dh.prime = 0 THEN << >>
    ELSE ToHex(ModExp(FromHex(DH_BASE_STRING), dh.priv, dh.prime))

\* TcpConnection::GenerateDiffieHellmanSharedData: the shared key, 0 for the
\* empty vector returned when the derivation fails.
GenerateDiffieHellmanSharedData(dh, otherPublic) ==
    LET pub == FromHex(otherPublic)
    IN IF dh.prime = 0 \/ pub < 2 \/ pub > dh.prime - 2 THEN 0
       ELSE ModExp(pub, dh.priv, dh.prime)

\* Blowfish, one byte at a time.
EncryptByte(key, b) == (b + key) % 256
DecryptByte(key, b) == (b - key + 256) % 256

\* Crypto::Blowfish::EncryptPacket: the sizes are written into the reserved
\* header, the body is padded with zeroes to the block size and encrypted.
EncryptPacket(key, packet) ==
    LET realSize == Len(packet) - GetHeaderSize
        paddedSize == ((realSize + BLOWFISH_BLOCK - 1) \div BLOWFISH_BLOCK)
                          * BLOWFISH_BLOCK
        body == Bytes(packet, GetHeaderSize, realSize)
                    \o WriteBlank(paddedSize - realSize)
    IN WriteU32Big(paddedSize) \o WriteU32Big(realSize)
           \o [i \in 1..paddedSize |-> EncryptByte(key, body[i])]

\* Crypto::Blowfish::DecryptPacket: everything after the header is decrypted.
DecryptPacket(key, packet) ==
    [i \in 1..Len(packet) |->
        IF i <= GetHeaderSize THEN packet[i] ELSE DecryptByte(key, packet[i])]

\* ------------------------------------------------------------------------
\* The send path
\* ------------------------------------------------------------------------

\* The loop of GetCombinedPackets: how many packets from the front of the
\* outgoing queue fit into one outer packet.
RECURSIVE CombineCount(_, _, _)
CombineCount(outgoing, taken, totalSize) ==
    IF taken = Len(outgoing) \/ ~(totalSize < MAX_PACKET_SIZE) THEN taken
    ELSE LET packetSize == Len(outgoing[taken + 1]) + 4
         IN IF totalSize + packetSize < MAX_PACKET_SIZE
            THEN CombineCount(outgoing, taken + 1, totalSize + packetSize)
            ELSE taken

\* EncryptedConnection::GetCombinedPackets under mOutgoingMutex: the packets
\* returned, the queue left and the sending flag afterwards.
\* GetCombinedPackets without the test of mSendingPacket.
GetCombinedPacketsIgnoresSending(outgoing, sending) ==
    LET n == CombineCount(outgoing, 0, GetHeaderSize)
    IN [packets |-> SubSeq(outgoing, 1, n),
        rest |-> SubSeq(outgoing, n + 1, Len(outgoing)),
        sending |-> sending \/ n > 0]

\* GetCombinedPackets with push_front in place of push_back.
GetCombinedPacketsPushFront(outgoing, sending) ==
    IF sending
    THEN [packets |-> << >>, rest |-> outgoing, sending |-> TRUE]
    ELSE LET n == CombineCount(outgoing, 0, GetHeaderSize)
         IN [packets |-> [i \in 1..n |-> outgoing[n + 1 - i]],
             rest |-> SubSeq(outgoing, n + 1, Len(outgoing)),
             sending |-> n > 0]

GetCombinedPackets(outgoing, sending) ==
    IF sending
    THEN [packets |-> << >>, rest |-> outgoing, sending |-> TRUE]
    ELSE LET n == CombineCount(outgoing, 0, GetHeaderSize)
         IN [packets |-> SubSeq(outgoing, 1, n),
             rest |-> SubSeq(outgoing, n + 1, Len(outgoing)),
             sending |-> n > 0]

\* The framed commands of PreparePackets' loop.
RECURSIVE FrameCommands(_)
FrameCommands(packets) ==
    IF Len(packets) = 0 THEN << >>
    ELSE WriteU16Big(Len(Head(packets)) + 2)
             \o WriteU16Little(Len(Head(packets)) + 2)
             \o Head(packets) \o FrameCommands(Tail(packets))

\* EncryptedConnection::PreparePackets: the new value of mOutgoing.
PreparePackets(status, key, packets, outgoing) ==
    IF status = "ENCRYPTED"
    THEN EncryptPacket(key, WriteBlank(GetHeaderSize) \o FrameCommands(packets))
    ELSE IF status # "NOT_CONNECTED" THEN Head(packets)
    ELSE outgoing

\* ------------------------------------------------------------------------
\* A connection: the fields of EncryptedConnection / TcpConnection, the
\* socket (open, the pending read, the completions its reactor has posted
\* and not yet run) and the messages enqueued to its message queue.
\*   tx       the outer packets handed to the socket by the running step
\*   failed   a parse failure was raised while handling received bytes
\*   ignored  PacketReceived was called without a packet parser
\*   parsed   for each outer packet ParsePacket(packet, paddedSize, realSize)
\*            handled: the messages it enqueued, where their commands end,
\*            and whether the connection was closed when the handler ended
\* ------------------------------------------------------------------------

EvRead(bytes) == [op |-> "read", data |-> bytes]
EvReadError == [op |-> "readError", data |-> << >>]
EvWrite == [op |-> "write", data |-> << >>]
EvWriteError == [op |-> "writeError", data |-> << >>]

NewConnection(role, haveQueue, dh) ==
    [mRole |-> role, mStatus |-> "CONNECTED", mPacketParser |-> "nullptr",
     mReceivedPacket |-> << >>, mMessageQueue |-> haveQueue,
     mOutgoingPackets |-> << >>, mSendingPacket |-> FALSE,
     mOutgoing |-> << >>, mEncryptionKey |-> 0, mDiffieHellman |-> dh,
     open |-> TRUE, requested |-> 0, reactor |-> << >>, queue |-> << >>,
     tx |-> << >>, started |-> FALSE, failed |-> FALSE, ignored |-> FALSE,
     parsed |-> << >>]

\* MessageQueue::Enqueue
Enqueue(r, msg) == [r EXCEPT !.queue = Append(@, msg)]

RECURSIVE EnqueueAll(_, _)
EnqueueAll(r, msgs) ==
    IF Len(msgs) = 0 THEN r ELSE EnqueueAll(Enqueue(r, Head(msgs)), Tail(msgs))

\* Packet::Clear on mReceivedPacket
ClearPacket(r) == [r EXCEPT !.mReceivedPacket = << >>]

\* TcpConnection::Close: closes the socket of a connection that is connected;
\* the pending read is cancelled and completes with an error.
TcpConnectionClose(r) ==
    IF r.mStatus = "NOT_CONNECTED" THEN r
    ELSE [r EXCEPT !.mStatus = "NOT_CONNECTED", !.open = FALSE,
                   !.requested = 0,
                   !.reactor = IF r.requested > 0 THEN Append(@, EvReadError)
                               ELSE @]

\* EncryptedConnection::Close
Close(r) ==
    IF r.mStatus # "NOT_CONNECTED" /\ r.mMessageQueue
    THEN Enqueue(TcpConnectionClose(r), MsgConnectionClosed)
    ELSE TcpConnectionClose(r)

\* TcpConnection::SocketError: closes the connection through the virtual
\* Close.
TcpConnectionSocketError(r) == Close(r)

\* EncryptedConnection::SocketError
SocketErrorKeepsParser(r) == TcpConnectionSocketError(r)

SocketError(r) ==
    [TcpConnectionSocketError(r) EXCEPT !.mPacketParser = "nullptr"]

\* SocketError called by a packet parser, or by PacketReceived for an
\* exception a parser threw.
ParseFail(r) == [SocketError(r) EXCEPT !.failed = TRUE]

\* TcpConnection::RequestPacket: FALSE for no bytes or more than the
\* received packet can hold.
RequestPacketOk(r, size) ==
    size # 0 /\ MAX_PACKET_SIZE >= Len(r.mReceivedPacket) + size

\* TcpConnection::RequestPacket when it starts a read: on a closed socket
\* the read completes with an error.
RequestPacket(r, size) ==
    IF r.open THEN [r EXCEPT !.requested = size]
    ELSE [r EXCEPT !.reactor = Append(@, EvReadError)]

\* if (!RequestPacket(size)) SocketError("Failed to request more data.")
RequestOrFail(r, size) ==
    IF RequestPacketOk(r, size) THEN RequestPacket(r, size) ELSE ParseFail(r)

\* TcpConnection::QueuePacket
QueuePacket(r, packet) == [r EXCEPT !.mOutgoingPackets = Append(@, packet)]

\* TcpConnection::FlushOutgoing after GetCombinedPackets returned g: the
\* packets are prepared and mOutgoing is handed to the socket; the send
\* completes, with an error on a closed socket.
SendCombined(r, g) ==
    IF Len(g.packets) = 0 THEN r
    ELSE LET out == PreparePackets(r.mStatus, r.mEncryptionKey, g.packets,
                        r.mOutgoing)
         IN [r EXCEPT !.mOutgoing = out,
                      !.tx = IF r.open THEN Append(@, out) ELSE @,
                      !.reactor = Append(@, IF r.open THEN EvWrite
                                            ELSE EvWriteError)]

\* TcpConnection::FlushOutgoing
FlushOutgoing(r) ==
    LET g == GetCombinedPackets(r.mOutgoingPackets, r.mSendingPacket)
    IN SendCombined([r EXCEPT !.mOutgoingPackets = g.rest,
                              !.mSendingPacket = g.sending], g)

\* TcpConnection::SendPacket
SendPacket(r, packet) == FlushOutgoing(QueuePacket(r, packet))

\* The completion handler of a send that succeeded.
WriteCompleted(r) ==
    FlushOutgoing([r EXCEPT !.mOutgoing = << >>, !.mSendingPacket = FALSE])

\* ------------------------------------------------------------------------
\* EncryptedConnection: the handshake and the packet parsers
\* ------------------------------------------------------------------------

\* strlen(DH_BASE_STRING) + 2 * DH_KEY_HEX_SIZE + 4 * sizeof(uint32_t)
ServerHelloSize == Len(DH_BASE_STRING) + 2 * DH_KEY_HEX_SIZE + 16

\* EncryptedConnection::ConnectionSuccess
ConnectionSuccess(r) ==
    IF r.mRole = "ROLE_CLIENT"
    THEN SendPacket(
             RequestOrFail(
                 [r EXCEPT !.mPacketParser = "ParseClientEncryptionStart"],
                 ServerHelloSize),
             WriteU32Big(1) \o WriteU32Big(8))
    ELSE RequestOrFail(
             [r EXCEPT !.mPacketParser = "ParseServerEncryptionStart"], 8)

\* EncryptedConnection::SendMessage
SendMessage(r, msg) ==
    RequestOrFail(IF ~r.mMessageQueue THEN ParseFail(r) ELSE Enqueue(r, msg), 8)

\* EncryptedConnection::ConnectionEncrypted (no capture file is configured)
ConnectionEncrypted(r) == SendMessage(r, MsgEncrypted)

\* EncryptedConnection::ParseClientEncryptionStart
ParseClientEncryptionStart(r) ==
    LET data == r.mReceivedPacket
        baseAt == 4
        primeAt == baseAt + 4 + Len(DH_BASE_STRING)
        publicAt == primeAt + 4 + DH_KEY_HEX_SIZE
    IN IF ServerHelloSize > Len(data)
       THEN RequestOrFail(r, ServerHelloSize - Len(data))
       ELSE IF ~(/\ ReadU32Big(data, 0) = 0
                 /\ ReadU32Big(data, baseAt) = Len(DH_BASE_STRING)
                 /\ Bytes(data, baseAt + 4, Len(DH_BASE_STRING))
                        = DH_BASE_STRING
                 /\ ReadU32Big(data, primeAt) = DH_KEY_HEX_SIZE
                 /\ ReadU32Big(data, publicAt) = DH_KEY_HEX_SIZE)
       \* the failing check calls SocketError, and so does the final else
       THEN ParseFail(ClearPacket(ParseFail(r)))
       ELSE IF Len(data) # publicAt + 4 + DH_KEY_HEX_SIZE
       THEN ParseFail(ClearPacket(r))
       ELSE LET prime == Bytes(data, primeAt + 4, DH_KEY_HEX_SIZE)
                serverPublic == Bytes(data, publicAt + 4, DH_KEY_HEX_SIZE)
                r1 == [r EXCEPT !.mStatus = "WAITING_ENCRYPTION",
                                !.mDiffieHellman =
                                    LoadDiffieHellman(prime, @.priv)]
                clientPublic == GenerateDiffieHellmanPublic(r1.mDiffieHellman)
                sharedData == GenerateDiffieHellmanSharedData(
                                  r1.mDiffieHellman, serverPublic)
            IN IF sharedData = 0
               THEN ParseFail(ClearPacket(r1))
               ELSE ConnectionEncrypted(
                        [SendPacket(r1, WriteString32Big(clientPublic))
                            EXCEPT !.mEncryptionKey = sharedData,
                                   !.mStatus = "ENCRYPTED",
                                   !.mPacketParser = "ParsePacket",
                                   !.mReceivedPacket = << >>])

\* EncryptedConnection::ParseServerEncryptionStart; ParseExtensionConnection
\* returns false.
ParseServerEncryptionStart(r) ==
    LET data == r.mReceivedPacket
    IN IF 8 > Len(data)
       THEN RequestOrFail(r, 8 - Len(data))
       ELSE IF Len(data) = 8 /\ ReadU32Big(data, 0) = 1
                /\ ReadU32Big(data, 4) = 8
       THEN LET reply ==
                    WriteBlank(4) \o WriteString32Big(DH_BASE_STRING)
                        \o WriteString32Big(
                               GetDiffieHellmanPrime(r.mDiffieHellman))
                        \o WriteString32Big(RightJustified(
                               GenerateDiffieHellmanPublic(r.mDiffieHellman),
                               DH_KEY_HEX_SIZE))
                r1 == SendPacket([r EXCEPT !.mStatus = "WAITING_ENCRYPTION"],
                          reply)
            IN RequestOrFail(
                   [r1 EXCEPT !.mPacketParser = "ParseServerEncryptionFinish",
                              !.mReceivedPacket = << >>], 4)
       ELSE ParseFail(ClearPacket(r))

\* EncryptedConnection::ParseServerEncryptionFinish.  With fewer than four
\* bytes PeekU32Big throws while the size to request is computed.
ParseServerEncryptionFinishShort(r) == ParseFail(r)

ParseServerEncryptionFinish(r) ==
    LET data == r.mReceivedPacket
    IN IF 4 > Len(data)
       THEN ParseServerEncryptionFinishShort(r)
       ELSE LET size == ReadU32Big(data, 0)
            IN IF 4 + size > Len(data)
               THEN RequestOrFail(r, size + 4 - Len(data))
               ELSE IF DH_KEY_HEX_SIZE < size
               THEN ParseFail(r)
               ELSE IF Len(data) # 4 + size
               THEN ParseFail(ClearPacket(r))
               ELSE LET sharedData == GenerateDiffieHellmanSharedData(
                                          r.mDiffieHellman,
                                          Bytes(data, 4, size))
                    IN IF sharedData = 0
                       THEN ParseFail(ClearPacket(r))
                       ELSE ConnectionEncrypted(
                                [r EXCEPT !.mEncryptionKey = sharedData,
                                          !.mStatus = "ENCRYPTED",
                                          !.mPacketParser = "ParsePacket",
                                          !.mReceivedPacket = << >>])

\* EncryptedConnection::ParsePacket(packet); DecompressPacket returns true
\* and the packet is moved into the read only copy, which leaves it empty.
ParsePacket(r) ==
    LET data == r.mReceivedPacket
    IN IF r.mStatus # "ENCRYPTED"
       THEN ParseFail(ClearPacket(r))
       ELSE IF 8 > Len(data)
       THEN RequestOrFail(r, 8 - Len(data))
       ELSE LET paddedSize == ReadU32Big(data, 0)
                realSize == ReadU32Big(data, 4)
            IN IF paddedSize + 8 > Len(data)
               THEN RequestOrFail(r, paddedSize + 8 - Len(data))
               ELSE LET res == ParsePacketSized(
                                   DecryptPacket(r.mEncryptionKey, data),
                                   paddedSize, realSize, r.mMessageQueue)
                        r1 == EnqueueAll(ClearPacket(r), res.msgs)
                        r2 == IF res.threw THEN ParseFail(r1)
                              ELSE RequestOrFail(
                                       IF res.err THEN ParseFail(r1) ELSE r1,
                                       8)
                    IN [r2 EXCEPT !.parsed = Append(@,
                            [msgs |-> res.msgs,
                             ends |-> CommandEnds(res.msgs, GetHeaderSize),
                             closed |-> r2.mStatus = "NOT_CONNECTED"])]

\* EncryptedConnection::PacketReceived
PacketReceived(r) ==
    IF r.mPacketParser = "ParseClientEncryptionStart"
    THEN ParseClientEncryptionStart(r)
    ELSE IF r.mPacketParser = "ParseServerEncryptionStart"
    THEN ParseServerEncryptionStart(r)
    ELSE IF r.mPacketParser = "ParseServerEncryptionFinish"
    THEN ParseServerEncryptionFinish(r)
    ELSE IF r.mPacketParser = "ParsePacket"
    THEN ParsePacket(r)
    ELSE [r EXCEPT !.ignored = TRUE]

\* ------------------------------------------------------------------------
\* State
\*   conn      the two connections
\*   net       the bytes sent to a connection that its socket has not read
\*   handed    the outer packets each connection handed to its socket
\*   sentFrames  what the remote peer of SpecConn framed into each outer
\*               packet it sent: the commands, the filler, the padding declared
\* ------------------------------------------------------------------------

\*   thread    the threads that send on connection 1 (SpecSend): where each
\*             is in TcpConnection::SendPacket or in the completion handler
\*             of a send, and the packets GetCombinedPackets returned to it
\*   appended  the packets appended to the outgoing queue of connection 1, in
\*             the order QueuePacket appended them
\*   objects   the persistent objects: constructed or not, mUUID, mDeleted
\*   sCached   PersistentObject::sCached, 0 for a UUID without an entry
\*   mCacheLock  the thread that holds PersistentObject::mCacheLock, 0 for none
\*   calls     the calls of PersistentObject::Register in progress (SpecRace)
\*   db        the committed rows of the database table, by UID
\*   worker    per worker thread: its database session, the change-set it is
\*             processing and what the last call returned
\*   mem       the in-memory persistent objects the workers hold
\*   timer     the TimerManager: its event set, its thread and the callers
\*   pkt       a Packet: its cursor, its size and its bytes
\*   sdm       the ServerDataManager: the loaded zones, partials and scripts
\*   store     the DataStore: its search paths and the files under them
\*   server    the TcpServer: how far Start has come
VARIABLES conn, net, handed, sentFrames, thread, appended,
          objects, sCached, mCacheLock, calls,
          db, worker, mem, timer,
          pkt, sdm, store, server

connVars == << conn, net, handed, sentFrames >>
sendVars == << thread, appended >>
cacheVars == << objects, sCached, mCacheLock, calls >>
dbVars == << db, worker, mem >>
timerVars == << timer >>
libVars == << pkt, sdm, store, server >>

vars == << connVars, sendVars, cacheVars, dbVars, timerVars, libVars >>

\* What the steps of a connection, of a sending thread and of the identity
\* cache leave alone.
notConn == << cacheVars, dbVars, timerVars, libVars >>
notSend == << sentFrames, cacheVars, dbVars, timerVars, libVars >>
notCache == << connVars, sendVars, dbVars, timerVars, libVars >>
notDb == << connVars, sendVars, cacheVars, timerVars, libVars >>
notTimer == << connVars, sendVars, cacheVars, dbVars, libVars >>
notLib == << connVars, sendVars, cacheVars, dbVars, timerVars >>

Conns == {1, 2}
Peer(c) == 3 - c

\* The outer packets a remote peer may send to the connection of SpecConn.
MaxFrames == 1

\* The sizes of a read that returns fewer bytes than were requested.
ShortReads == {3}

RECURSIVE Flatten(_)
Flatten(packets) ==
    IF Len(packets) = 0 THEN << >>
    ELSE Head(packets) \o Flatten(Tail(packets))

\* The step of connection c ends with its fields r: what it handed to the
\* socket is on its way to the peer.
Commit(c, r) ==
    /\ conn' = [conn EXCEPT ![c] = [r EXCEPT !.tx = << >>]]
    /\ net' = [net EXCEPT ![Peer(c)] = @ \o Flatten(r.tx)]
    /\ handed' = [handed EXCEPT ![c] = @ \o r.tx]

\* The key pair a server connection is constructed with
\* (TcpServer::CreateConnection copies the server's).
ServerDiffieHellman(priv) == [prime |-> FromHex(DH_PRIME_HEX), priv |-> priv]
ClientDiffieHellman(priv) == [prime |-> 0, priv |-> priv]

\* ---- the subsystems a specification leaves out ------------------------------

Threads == {"io", "w1", "w2"}
Workers == Threads \ {"io"}

Idle == [pc |-> "idle", packets |-> << >>, suppressed |-> FALSE]

\* No thread is sending.
NoSending ==
    /\ thread = [t \in Threads |-> Idle]
    /\ appended = << >>

\* No database is open.
NoDatabase ==
    /\ db = << >>
    /\ worker = << >>
    /\ mem = << >>

\* No TimerManager was constructed.
NoTimer == timer = << >>

\* No packet, no server data, no data store and no server are in use.
NoPacket == pkt = << >>
NoServerData == sdm = << >>
NoDataStore == store = << >>
NoTcpServer == server = << >>
NoLibrary == NoPacket /\ NoServerData /\ NoDataStore /\ NoTcpServer

\* No persistent object was constructed.
NoCache ==
    /\ objects = << >>
    /\ sCached = << >>
    /\ mCacheLock = 0
    /\ calls = << >>

\* ---- what a remote peer may send ----------------------------------------

ServerHello(first, base, prime, public) ==
    WriteU32Big(first) \o WriteString32Big(base) \o WriteString32Big(prime)
        \o WriteString32Big(public)

ServerHellos ==
    { ServerHello(0, DH_BASE_STRING, DH_PRIME_HEX, << 48, 56 >>),
      ServerHello(1, DH_BASE_STRING, DH_PRIME_HEX, << 48, 56 >>),
      ServerHello(0, << 51 >>, DH_PRIME_HEX, << 48, 56 >>),
      ServerHello(0, DH_BASE_STRING, << 48, 49, 55 >>, << 56 >>),
      ServerHello(0, DH_BASE_STRING, << 48, 48 >>, << 48, 56 >>),
      ServerHello(0, DH_BASE_STRING, DH_PRIME_HEX, << 48, 48 >>) }

Preambles ==
    { WriteU32Big(1) \o WriteU32Big(8), WriteU32Big(1) \o WriteU32Big(9),
      WriteU32Big(0) \o WriteU32Big(8) }

ClientPublics ==
    { WriteString32Big(<< 48, 56 >>), WriteString32Big(<< 57 >>),
      WriteString32Big(<< 48, 48, 56 >>), WriteString32Big(<< 48, 48 >>),
      WriteString32Big(<< >>) }

\* An inner command as the peer frames it: the command size it declares,
\* the command code and the payload.
Cmd(declared, code, payload) ==
    [declared |-> declared, code |-> code, payload |-> payload]

\* The bytes of a command: the size hint, the command size, the command
\* code, the payload.
Command(cmd) ==
    WriteU16Big(cmd.declared) \o WriteU16Little(cmd.declared)
        \o WriteU16Little(cmd.code) \o cmd.payload

Commands == { Cmd(5, 38, << 7 >>), Cmd(4, 86, << >>), Cmd(3, 86, << >>) }

CommandLists ==
    {<< >>} \cup {<< a >> : a \in Commands}
        \cup {<< a, b >> : a \in Commands, b \in Commands}

Fillers == {<< >>, << 0, 0, 0 >>}

\* The padding an outer packet declares: its padded size less its real size
\* (-1: a real size above the padded size).
Paddings == {0, 3, 5, -1}

RECURSIVE CommandBytes(_)
CommandBytes(cmds) ==
    IF Len(cmds) = 0 THEN << >>
    ELSE Command(Head(cmds)) \o CommandBytes(Tail(cmds))

\* The cleartext body of an outer packet: the commands, then the filler.
Body(d) == CommandBytes(d.cmds) \o d.filler

\* A packet of the largest size that declares all of its body but one byte
\* to be padding.
AllPadding ==
    [cmds |-> << Cmd(4, 86, << >>) >>,
     filler |-> WriteBlank(MAX_PACKET_SIZE - GetHeaderSize - 6),
     pad |-> MAX_PACKET_SIZE - GetHeaderSize - 1]

FrameDescs ==
    {[cmds |-> l, filler |-> f, pad |-> p] :
        l \in CommandLists \ {<< >>}, f \in Fillers, p \in Paddings}
        \cup {[cmds |-> << >>, filler |-> << >>, pad |-> 0], AllPadding}

\* The outer packet: the sizes, then the body encrypted with key.
Frame(key, d) ==
    WriteU32Big(Len(Body(d))) \o WriteU32Big(Len(Body(d)) - d.pad)
        \o [i \in 1..Len(Body(d)) |-> EncryptByte(key, Body(d)[i])]

\* The header of an outer packet larger than a packet may be.
Oversize == WriteU32Big(MAX_PACKET_SIZE) \o WriteU32Big(MAX_PACKET_SIZE)

\* What the peer of SpecConn may send during the handshake, and the header
\* it may send afterwards.
EnvMessages(r) ==
    IF r.mPacketParser = "ParseClientEncryptionStart" THEN ServerHellos
    ELSE IF r.mPacketParser = "ParseServerEncryptionStart" THEN Preambles
    ELSE IF r.mPacketParser = "ParseServerEncryptionFinish" THEN ClientPublics
    ELSE IF r.mPacketParser = "ParsePacket" THEN {Oversize}
    ELSE {}

\* ---- actions --------------------------------------------------------------

\* The connection is established: ConnectionSuccess is called once.
Connect(c) ==
    /\ ~conn[c].started
    /\ Commit(c, ConnectionSuccess([conn[c] EXCEPT !.started = TRUE]))
    /\ UNCHANGED << sentFrames, sendVars, notConn >>

\* The remote peer sends a handshake message or an oversize header.
EnvSend(c) ==
    /\ net[c] = << >>
    /\ conn[c].open
    /\ conn[c].requested > 0
    /\ \E m \in EnvMessages(conn[c]) :
           net' = [net EXCEPT ![c] = m]
    /\ UNCHANGED << conn, handed, sentFrames, sendVars, notConn >>

\* The remote peer sends an outer packet encrypted with the session key.
EnvFrame(c) ==
    /\ net[c] = << >>
    /\ conn[c].open
    /\ conn[c].requested > 0
    /\ conn[c].mPacketParser = "ParsePacket"
    /\ Len(sentFrames) < MaxFrames
    /\ \E d \in FrameDescs :
           /\ net' = [net EXCEPT ![c] = Frame(conn[c].mEncryptionKey, d)]
           /\ sentFrames' = Append(sentFrames, d)
    /\ UNCHANGED << conn, handed, sendVars, notConn >>

\* The pending read of c completes with n bytes: all that were requested and
\* have arrived, or fewer.
NetArrive(c) ==
    LET r == conn[c]
        most == Min(r.requested, Len(net[c]))
    IN /\ r.requested > 0
       /\ most > 0
       /\ \E n \in {most} \cup {k \in ShortReads : k < most} :
              /\ conn' = [conn EXCEPT ![c] =
                              [r EXCEPT !.requested = 0,
                                        !.reactor =
                                            Append(@, EvRead(Bytes(net[c], 0, n)))]]
              /\ net' = [net EXCEPT ![c] = SubSeq(@, n + 1, Len(@))]
       /\ UNCHANGED << handed, sentFrames, sendVars, notConn >>

\* The peer resets the connection: the pending read completes with an error.
PeerReset(c) ==
    /\ conn[c].requested > 0
    /\ conn' = [conn EXCEPT ![c] = [@ EXCEPT !.requested = 0,
                                             !.reactor = Append(@, EvReadError)]]
    /\ UNCHANGED << net, handed, sentFrames, sendVars, notConn >>

\* The reactor runs the completion handler of a read: the bytes are added
\* to mReceivedPacket, which is rewound and passed to PacketReceived.
HandleRead(c) ==
    LET r == conn[c]
    IN /\ Len(r.reactor) > 0
       /\ Head(r.reactor).op = "read"
       /\ Commit(c, PacketReceived(
                        [r EXCEPT !.reactor = Tail(@),
                                  !.mReceivedPacket =
                                      @ \o Head(r.reactor).data]))
       /\ UNCHANGED << sentFrames, sendVars, notConn >>

\* The completion handler of a read that failed: SocketError.
HandleReadError(c) ==
    LET r == conn[c]
    IN /\ Len(r.reactor) > 0
       /\ Head(r.reactor).op = "readError"
       /\ Commit(c, SocketError([r EXCEPT !.reactor = Tail(@)]))
       /\ UNCHANGED << sentFrames, sendVars, notConn >>

\* The completion handler of a send that succeeded.
HandleWrite(c) ==
    LET r == conn[c]
    IN /\ Len(r.reactor) > 0
       /\ Head(r.reactor).op = "write"
       /\ Commit(c, WriteCompleted([r EXCEPT !.reactor = Tail(@)]))
       /\ UNCHANGED << sentFrames, sendVars, notConn >>

\* The completion handler of a send that failed: SocketError.
HandleWriteError(c) ==
    LET r == conn[c]
    IN /\ Len(r.reactor) > 0
       /\ Head(r.reactor).op = "writeError"
       /\ Commit(c, SocketError([r EXCEPT !.reactor = Tail(@)]))
       /\ UNCHANGED << sentFrames, sendVars, notConn >>

\* The owner of the connection calls Close().
CallClose(c) ==
    /\ conn[c].started
    /\ Commit(c, Close(conn[c]))
    /\ UNCHANGED << sentFrames, sendVars, notConn >>

\* ---- SpecConn: one connection and an arbitrary remote peer ---------------

InitConn ==
    /\ \E role \in {"ROLE_CLIENT", "ROLE_SERVER"}, q \in BOOLEAN,
          priv \in {CHOOSE x \in DhPrivates : TRUE} :
           conn = [c \in Conns |->
                      IF c = 1
                      THEN NewConnection(role, q,
                               IF role = "ROLE_SERVER"
                               THEN ServerDiffieHellman(priv)
                               ELSE ClientDiffieHellman(priv))
                      ELSE NewConnection("ROLE_SERVER", FALSE,
                               ServerDiffieHellman(priv))]
    /\ net = [c \in Conns |-> << >>]
    /\ handed = [c \in Conns |-> << >>]
    /\ sentFrames = << >>
    /\ NoSending
    /\ NoDatabase
    /\ NoTimer
    /\ NoCache
    /\ NoLibrary

NextConn ==
    \/ Connect(1)
    \/ EnvSend(1)
    \/ EnvFrame(1)
    \/ NetArrive(1)
    \/ PeerReset(1)
    \/ HandleRead(1)
    \/ HandleReadError(1)
    \/ HandleWrite(1)
    \/ HandleWriteError(1)
    \/ CallClose(1)

SpecConn == InitConn /\ [][NextConn]_vars

\* ---- SpecHandshake: a client and a server connected to each other -------

\* The peer of c closed its socket and everything it sent was read: the
\* pending read of c completes with an error.
PeerClosed(c) ==
    /\ ~conn[Peer(c)].open
    /\ conn[c].requested > 0
    /\ net[c] = << >>
    /\ conn' = [conn EXCEPT ![c] = [@ EXCEPT !.requested = 0,
                                             !.reactor = Append(@, EvReadError)]]
    /\ UNCHANGED << net, handed, sentFrames, sendVars, notConn >>

InitHandshake ==
    /\ \E a \in DhPrivates, b \in DhPrivates :
           conn = [c \in Conns |->
                      IF c = 1
                      THEN NewConnection("ROLE_CLIENT", TRUE,
                               ClientDiffieHellman(a))
                      ELSE NewConnection("ROLE_SERVER", TRUE,
                               ServerDiffieHellman(b))]
    /\ net = [c \in Conns |-> << >>]
    /\ handed = [c \in Conns |-> << >>]
    /\ sentFrames = << >>
    /\ NoSending
    /\ NoDatabase
    /\ NoTimer
    /\ NoCache
    /\ NoLibrary

NextHandshake ==
    \E c \in Conns :
        \/ Connect(c)
        \/ NetArrive(c)
        \/ PeerClosed(c)
        \/ HandleRead(c)
        \/ HandleReadError(c)
        \/ HandleWrite(c)

SpecHandshake == InitHandshake /\ [][NextHandshake]_vars

\* ---- SpecSend: threads that send on one connection ------------------------

\* The packets the threads may append.
MaxPackets == 3

\* A packet of the application: the command code, the number of the packet,
\* and for a long packet twenty more bytes.
AppPacket(id, long) ==
    WriteU16Little(38) \o << id >> \o (IF long THEN WriteBlank(20) ELSE << >>)

\* A server connection after it answered the preamble of its client, and
\* after it read the public key of the client.
ServerWaiting ==
    LET r == ParseServerEncryptionStart(
                 [ConnectionSuccess(
                      [NewConnection("ROLE_SERVER", TRUE,
                           ServerDiffieHellman(CHOOSE x \in DhPrivates : TRUE))
                          EXCEPT !.started = TRUE])
                     EXCEPT !.mReceivedPacket = WriteU32Big(1) \o WriteU32Big(8)])
    IN [WriteCompleted([r EXCEPT !.reactor = Tail(@)]) EXCEPT !.tx = << >>]

ServerEncrypted ==
    ParseServerEncryptionFinish(
        [ServerWaiting EXCEPT !.mReceivedPacket =
             WriteString32Big(GenerateDiffieHellmanPublic(
                 ServerDiffieHellman(CHOOSE x \in DhPrivates : TRUE)))])

\* A worker calls SendPacket: QueuePacket appends under mOutgoingMutex.
QueuePacketStep(t) ==
    /\ t \in Workers
    /\ thread[t].pc = "idle"
    /\ Len(appended) < MaxPackets
    /\ \E long \in BOOLEAN :
           LET packet == AppPacket(Len(appended) + 1, long)
           IN /\ conn' = [conn EXCEPT ![1] = QueuePacket(@, packet)]
              /\ appended' = Append(appended, packet)
    /\ thread' = [thread EXCEPT ![t].pc = "flush"]
    /\ UNCHANGED << net, handed, notSend >>

\* FlushOutgoing calls GetCombinedPackets, which runs under mOutgoingMutex.
GetCombinedPacketsStep(t) ==
    /\ thread[t].pc = "flush"
    /\ LET r == conn[1]
           g == GetCombinedPackets(r.mOutgoingPackets, r.mSendingPacket)
       IN /\ conn' = [conn EXCEPT ![1] =
                         [r EXCEPT !.mOutgoingPackets = g.rest,
                                   !.mSendingPacket = g.sending]]
          /\ thread' = [thread EXCEPT ![t] =
                           [pc |-> IF Len(g.packets) = 0 THEN "idle"
                                   ELSE "send",
                            packets |-> g.packets,
                            suppressed |-> r.mSendingPacket
                                               /\ r.mOutgoingPackets # << >>]]
    /\ UNCHANGED << net, handed, appended, notSend >>

\* FlushOutgoing prepares the packets it was returned and starts the send.
SendStep(t) ==
    /\ thread[t].pc = "send"
    /\ Commit(1, SendCombined(conn[1], [packets |-> thread[t].packets]))
    /\ thread' = [thread EXCEPT ![t].pc = "idle", ![t].packets = << >>]
    /\ UNCHANGED << appended, notSend >>

\* The completion handler of a send: under mOutgoingMutex mOutgoing is
\* cleared and mSendingPacket reset; FlushOutgoing follows when packets wait.
SendCompletedStep ==
    /\ thread["io"].pc = "idle"
    /\ Len(conn[1].reactor) > 0
    /\ Head(conn[1].reactor).op = "write"
    /\ conn' = [conn EXCEPT ![1] = [@ EXCEPT !.reactor = Tail(@),
                                             !.mOutgoing = << >>,
                                             !.mSendingPacket = FALSE]]
    /\ thread' = [thread EXCEPT !["io"].pc =
                     IF conn[1].mOutgoingPackets # << >> THEN "flush"
                     ELSE "idle"]
    /\ UNCHANGED << net, handed, appended, notSend >>

InitSend ==
    /\ \E r \in {ServerWaiting, ServerEncrypted} :
           conn = [c \in Conns |->
                      IF c = 1 THEN r
                      ELSE NewConnection("ROLE_CLIENT", FALSE,
                               ClientDiffieHellman(0))]
    /\ net = [c \in Conns |-> << >>]
    /\ handed = [c \in Conns |-> << >>]
    /\ sentFrames = << >>
    /\ NoSending
    /\ NoDatabase
    /\ NoTimer
    /\ NoCache
    /\ NoLibrary

NextSend ==
    \/ \E t \in Threads :
           \/ QueuePacketStep(t)
           \/ GetCombinedPacketsStep(t)
           \/ SendStep(t)
    \/ SendCompletedStep

SpecSend == InitSend /\ [][NextSend]_vars

\* ------------------------------------------------------------------------
\* PersistentObject: the identity cache
\*   An object is a record: live (constructed and not destroyed), mUUID (0 for
\*   the null UUID), mDeleted, and holds: the UUID its last Register returned
\*   true for, 0 once it unregistered or gave that UUID up.
\* ------------------------------------------------------------------------

\* The objects that may be constructed.
MaxObjects == 3

Objs == 1..MaxObjects

\* The UUIDs callers pass to Register, and those UUID::Random draws.
UUIDs == {1, 2}
RandomUUIDs == {11}
AllUUIDs == UUIDs \cup RandomUUIDs

\* PersistentObject::PersistentObject
NewObject == [live |-> TRUE, mUUID |-> 0, mDeleted |-> FALSE, holds |-> 0]

NoObject == [live |-> FALSE, mUUID |-> 0, mDeleted |-> FALSE, holds |-> 0]

\* libobjgen::UUID::Random: a UUID no object and no entry has.
RandomFree(objs, cache) ==
    {u \in RandomUUIDs : cache[u] = 0 /\ \A o \in Objs : objs[o].mUUID # u}

\* A call of Register(self, pUuid) on the objects objs and the cache.
RegisterCall(objs, cache, self, pUuid, random) ==
    [objects |-> objs, sCached |-> cache, self |-> self, pUuid |-> pUuid,
     random |-> random, registered |-> FALSE, result |-> FALSE]

\* Register, lines 115-121: the entry of the old UUID is erased when it is
\* this object's.
EraseOld(m) ==
    LET uuid == m.objects[m.self].mUUID
    IN IF m.pUuid # 0 /\ uuid # 0 /\ m.sCached[uuid] = m.self
       THEN [m EXCEPT !.sCached[uuid] = 0,
                      !.objects[m.self].holds = 0]
       ELSE m

\* Register, lines 123-128: mUUID is set.
AssignUUID(m) ==
    IF m.pUuid # 0 THEN [m EXCEPT !.objects[m.self].mUUID = m.pUuid]
    ELSE IF m.objects[m.self].mUUID = 0
    THEN [m EXCEPT !.objects[m.self].mUUID = m.random, !.registered = TRUE]
    ELSE m

\* Register, lines 130-132: the test for an entry of the UUID.
CheckDuplicate(m) ==
    IF ~m.registered /\ m.sCached[m.objects[m.self].mUUID] = 0
    THEN [m EXCEPT !.registered = TRUE]
    ELSE m

\* Register, lines 134-145: the entry is written.
Insert(m) ==
    IF m.registered
    THEN [m EXCEPT !.sCached[m.objects[m.self].mUUID] = m.self,
                   !.objects[m.self].holds = m.objects[m.self].mUUID,
                   !.result = TRUE]
    ELSE m

\* PersistentObject::Register
Register(objs, cache, self, pUuid, random) ==
    IF objs[self].mDeleted
    THEN RegisterCall(objs, cache, self, pUuid, random)
    ELSE Insert(CheckDuplicate(AssignUUID(EraseOld(
             RegisterCall(objs, cache, self, pUuid, random)))))

\* The entry of uuid is erased, whichever object it names.
EraseEntry(cache, uuid) ==
    IF uuid # 0 /\ cache[uuid] # 0 THEN [cache EXCEPT ![uuid] = 0] ELSE cache

\* PersistentObject::Unregister: the new cache.
Unregister(objs, cache, self) == EraseEntry(cache, objs[self].mUUID)

\* PersistentObject::~PersistentObject: the new cache.
Destructor(objs, cache, self) ==
    IF objs[self].mUUID # 0 /\ ~objs[self].mDeleted
    THEN EraseEntry(cache, objs[self].mUUID)
    ELSE cache

\* PersistentObject::GetObjectByUUID: 0 for nullptr.
GetObjectByUUID(objs, cache, uuid) ==
    IF cache[uuid] # 0 /\ objs[cache[uuid]].live THEN cache[uuid] ELSE 0

\* ---- SpecCache: objects are constructed, registered, unregistered, destroyed

Construct(o) ==
    /\ ~objects[o].live
    /\ objects' = [objects EXCEPT ![o] = NewObject]
    /\ UNCHANGED << sCached, mCacheLock, calls, notCache >>

RegisterStep(o) ==
    /\ objects[o].live
    /\ \E pUuid \in UUIDs \cup {0} :
           /\ pUuid = 0 /\ objects[o].mUUID = 0
                  => RandomFree(objects, sCached) # {}
           /\ LET random == IF RandomFree(objects, sCached) = {} THEN 0
                            ELSE CHOOSE u \in RandomFree(objects, sCached) :
                                     TRUE
                  m == Register(objects, sCached, o, pUuid, random)
              IN /\ objects' = m.objects
                 /\ sCached' = m.sCached
    /\ UNCHANGED << mCacheLock, calls, notCache >>

UnregisterStep(o) ==
    /\ objects[o].live
    /\ objects' = [objects EXCEPT ![o].mDeleted = TRUE, ![o].holds = 0]
    /\ sCached' = Unregister(objects, sCached, o)
    /\ UNCHANGED << mCacheLock, calls, notCache >>

\* The last reference to o is dropped.
Destroy(o) ==
    /\ objects[o].live
    /\ objects' = [objects EXCEPT ![o] = NoObject]
    /\ sCached' = Destructor(objects, sCached, o)
    /\ UNCHANGED << mCacheLock, calls, notCache >>

InitCache ==
    /\ objects = [o \in Objs |-> NoObject]
    /\ sCached = [u \in AllUUIDs |-> 0]
    /\ mCacheLock = 0
    /\ calls = << >>
    /\ conn = << >>
    /\ net = << >>
    /\ handed = << >>
    /\ sentFrames = << >>
    /\ NoSending
    /\ NoDatabase
    /\ NoTimer
    /\ NoLibrary

NextCache ==
    \E o \in Objs :
        \/ Construct(o)
        \/ RegisterStep(o)
        \/ UnregisterStep(o)
        \/ Destroy(o)

SpecCache == InitCache /\ [][NextCache]_vars

\* ---- SpecRace: two threads call Register for the same UUID ----------------

RaceThreads == {1, 2}

\* The thread that calls GetObjectByUUID.
Reader == 1 + Cardinality(RaceThreads)

\* The UUID both calls pass.
RaceUUID == CHOOSE u \in UUIDs : \A v \in UUIDs : u <= v

\* std::lock_guard<std::mutex> lock(mCacheLock): thread t may take the lock.
LockGuardFree(lock, t) == TRUE

LockGuard(lock, t) == lock = 0

\* The fields of the call of thread t, with the objects and the cache.
CallOf(t) ==
    [objects |-> objects, sCached |-> sCached, self |-> calls[t].self,
     pUuid |-> calls[t].pUuid, random |-> 0,
     registered |-> calls[t].registered, result |-> calls[t].result]

\* Thread t has run a part of Register that left m, and goes on at pc.
Ran(t, m, pc) ==
    /\ objects' = m.objects
    /\ sCached' = m.sCached
    /\ calls' = [calls EXCEPT ![t].registered = m.registered,
                              ![t].result = m.result,
                              ![t].pc = pc]

\* Line 109: IsDeleted is read before the lock is taken.
RegisterEnter(t) ==
    /\ calls[t].pc = "start"
    /\ calls' = [calls EXCEPT ![t].pc =
                    IF objects[calls[t].self].mDeleted THEN "done" ELSE "lock"]
    /\ UNCHANGED << objects, sCached, mCacheLock, notCache >>

\* Line 114
RegisterLock(t) ==
    /\ calls[t].pc = "lock"
    /\ LockGuard(mCacheLock, t)
    /\ mCacheLock' = t
    /\ calls' = [calls EXCEPT ![t].pc = "erase"]
    /\ UNCHANGED << objects, sCached, notCache >>

RegisterEraseOld(t) ==
    /\ calls[t].pc = "erase"
    /\ Ran(t, EraseOld(CallOf(t)), "assign")
    /\ UNCHANGED << mCacheLock, notCache >>

RegisterAssign(t) ==
    /\ calls[t].pc = "assign"
    /\ Ran(t, AssignUUID(CallOf(t)), "check")
    /\ UNCHANGED << mCacheLock, notCache >>

RegisterCheck(t) ==
    /\ calls[t].pc = "check"
    /\ Ran(t, CheckDuplicate(CallOf(t)), "insert")
    /\ UNCHANGED << mCacheLock, notCache >>

\* The entry is written and the call returns, which releases the lock.
RegisterInsert(t) ==
    /\ calls[t].pc = "insert"
    /\ Ran(t, Insert(CallOf(t)), "done")
    /\ mCacheLock' = 0
    /\ UNCHANGED notCache

\* Both calls of Register have returned.
BothReturned == \A t \in RaceThreads : calls[t].pc = "done"

\* The reader calls GetObjectByUUID, which runs under mCacheLock; `after`
\* records whether both calls of Register had returned.
LookupStep ==
    /\ calls[Reader].pc = "start"
    /\ LockGuard(mCacheLock, Reader)
    /\ calls' = [calls EXCEPT ![Reader].seen =
                                  GetObjectByUUID(objects, sCached, RaceUUID),
                              ![Reader].after = BothReturned,
                              ![Reader].pc = "done"]
    /\ UNCHANGED << objects, sCached, mCacheLock, notCache >>

\* What an object went through before the calls: nothing, a Register of
\* another UUID, or an Unregister.
Pasts == {"new", "registered", "unregistered"}

\* Object o after its past; a registered object holds `other`.
WithPast(m, o, past, other) ==
    LET fresh == [m EXCEPT !.objects[o] = NewObject]
    IN IF past = "new" THEN fresh
       ELSE IF past = "registered"
       THEN Register(fresh.objects, fresh.sCached, o, other, 0)
       ELSE [fresh EXCEPT !.objects[o].mDeleted = TRUE]

InitRace ==
    /\ \E p1 \in Pasts, p2 \in Pasts :
           LET empty == RegisterCall([o \in Objs |-> NoObject],
                            [u \in AllUUIDs |-> 0], 1, 0, 0)
               other == CHOOSE u \in UUIDs : u # RaceUUID
               m == WithPast(WithPast(empty, 1, p1, other), 2, p2,
                        CHOOSE u \in RandomUUIDs : TRUE)
           IN /\ objects = m.objects
              /\ sCached = m.sCached
    /\ mCacheLock = 0
    /\ calls = [t \in RaceThreads \cup {Reader} |->
                   [self |-> IF t = Reader THEN 0 ELSE t, pUuid |-> RaceUUID,
                    registered |-> FALSE, result |-> FALSE, pc |-> "start",
                    seen |-> 0, after |-> FALSE]]
    /\ conn = << >>
    /\ net = << >>
    /\ handed = << >>
    /\ sentFrames = << >>
    /\ NoSending
    /\ NoDatabase
    /\ NoTimer
    /\ NoLibrary

NextRace ==
    \/ \E t \in RaceThreads :
           \/ RegisterEnter(t)
           \/ RegisterLock(t)
           \/ RegisterEraseOld(t)
           \/ RegisterAssign(t)
           \/ RegisterCheck(t)
           \/ RegisterInsert(t)
    \/ LookupStep

SpecRace == InitRace /\ [][NextRace]_vars

\* ------------------------------------------------------------------------
\* DatabaseMariaDB: the statements of a change-set
\* ------------------------------------------------------------------------

\* One table of one persistent type: the columns next to UID, the values a
\* column may hold and the UIDs of its rows.
Columns == {"Hp", "Mp"}
Values == {80, 100}
DbUIDs == {1, 2}

\* A null libobjgen::UUID.
NullUUID == 0

\* A column a map of bind values does not name.
Unset == -1

\* The row of a UID the table does not hold.
NoRow == [c \in Columns |-> 0]

Rows == [Columns -> Values]
Tables == [DbUIDs -> Rows \cup {NoRow}]

\* The columns a map of bind values names.
Cols(binds) == { c \in Columns : binds[c] # Unset }

\* A persistent object in memory: its UUID, its members and the members
\* changed since it was loaded.
PersistentObject(uuid, values, dirty) ==
    [uuid |-> uuid, values |-> values, dirty |-> dirty]

\* PersistentObject::GetMemberBindValues: every member, or the changed ones.
GetMemberBindValues(obj, retrieveAll) ==
    [c \in Columns |->
        IF retrieveAll \/ c \in obj.dirty THEN obj.values[c] ELSE Unset]

\* UPDATE ... SET: the row with the named columns replaced.
SetColumns(row, binds) ==
    [c \in Columns |-> IF binds[c] # Unset THEN binds[c] ELSE row[c]]

\* What a statement returns: whether it succeeded, the table as the session
\* sees it afterwards and the affected row count.
StmtResult(ok, table, rows) == [ok |-> ok, table |-> table, rows |-> rows]

\* The row of uuid in the table t.
RowOf(t, uuid) == IF uuid \in DbUIDs THEN t[uuid] ELSE NoRow

\* DatabaseMariaDB::InsertSingleObject, for an object that has a UUID: the
\* INSERT fails on a duplicate UID and when Execute fails.
InsertSingleObject(t, obj, fails) ==
    IF fails \/ RowOf(t, obj.uuid) # NoRow
    THEN StmtResult(FALSE, t, 0)
    ELSE StmtResult(TRUE,
             [t EXCEPT ![obj.uuid] = GetMemberBindValues(obj, TRUE)], 1)

\* DatabaseMariaDB::UpdateSingleObject.
UpdateSingleObject(t, obj, fails) ==
    LET values == GetMemberBindValues(obj, FALSE)
    IN IF obj.uuid = NullUUID THEN StmtResult(FALSE, t, 0)
       ELSE IF Cols(values) = {} THEN StmtResult(TRUE, t, 0)
       ELSE IF fails THEN StmtResult(FALSE, t, 0)
       ELSE IF RowOf(t, obj.uuid) = NoRow THEN StmtResult(TRUE, t, 0)
       ELSE StmtResult(TRUE,
                [t EXCEPT ![obj.uuid] = SetColumns(@, values)], 1)

\* DatabaseMariaDB::DeleteObjects, the objects being of one type.
DeleteObjects(t, objs, fails) ==
    LET uuids == { objs[i].uuid : i \in 1..Len(objs) }
    IN IF NullUUID \in uuids THEN StmtResult(FALSE, t, 0)
       ELSE IF objs = << >> THEN StmtResult(TRUE, t, 0)
       ELSE IF fails THEN StmtResult(FALSE, t, 0)
       ELSE StmtResult(TRUE,
                [u \in DbUIDs |-> IF u \in uuids THEN NoRow ELSE t[u]],
                Cardinality({ u \in uuids : RowOf(t, u) # NoRow }))

\* Database::DeleteSingleObject.
DeleteSingleObject(t, obj, fails) == DeleteObjects(t, << obj >>, fails)

\* An explicit update: the record, the expected values and the new values.
DBExplicitUpdate(uuid, expected, changes) ==
    [type |-> "DBOP_EXPLICIT", record |-> PersistentObject(uuid, NoRow, {}),
     expected |-> expected, changes |-> changes]

\* The columns of the WHERE clause ProcessExplicitUpdate builds next to UID.
WhereColumns(expectedVals, changedVals) == Cols(changedVals)

\* mysql_affected_rows of an UPDATE of one row: a row that matches and
\* already holds the new values is not counted.
AffectedRows(matches, old, new) == IF matches /\ new # old THEN 1 ELSE 0

\* An explicit update that does not look at the affected row count.
ProcessExplicitUpdateAnyCount(t, update, fails) ==
    LET obj == update.record
        row == RowOf(t, obj.uuid)
        matches == /\ row # NoRow
                   /\ \A c \in Cols(update.changes) :
                          row[c] = update.expected[c]
        new == SetColumns(row, update.changes)
    IN StmtResult(~fails,
           IF matches /\ ~fails THEN [t EXCEPT ![obj.uuid] = new] ELSE t,
           AffectedRows(matches /\ ~fails, row, new))

\* DatabaseMariaDB::ProcessExplicitUpdate.
ProcessExplicitUpdate(t, update, fails) ==
    LET obj == update.record
        expectedVals == update.expected
        changedVals == update.changes
        row == RowOf(t, obj.uuid)
        matches == /\ row # NoRow
                   /\ \A c \in WhereColumns(expectedVals, changedVals) :
                          row[c] = expectedVals[c]
        new == SetColumns(row, changedVals)
        rows == AffectedRows(matches, row, new)
    IN IF Cols(changedVals) = {} THEN StmtResult(FALSE, t, 0)
       ELSE IF \E c \in Cols(changedVals) : c \notin Cols(expectedVals)
       THEN StmtResult(FALSE, t, 0)
       ELSE IF fails THEN StmtResult(FALSE, t, 0)
       ELSE StmtResult(rows = 1,
                IF rows = 1 THEN [t EXCEPT ![obj.uuid] = new] ELSE t, rows)

\* An operation of an operational change-set.
DBOperationalChange(type, obj) == [type |-> type, record |-> obj]

\* The switch of ProcessOperationalChangeSet; the deletes of a standard
\* change-set are one operation, "DeleteObjects".
ApplyOperation(t, op, fails) ==
    CASE op.type = "DBOP_INSERT" -> InsertSingleObject(t, op.record, fails)
      [] op.type = "DBOP_UPDATE" -> UpdateSingleObject(t, op.record, fails)
      [] op.type = "DBOP_DELETE" -> DeleteSingleObject(t, op.record, fails)
      [] op.type = "DBOP_EXPLICIT" -> ProcessExplicitUpdate(t, op, fails)
      [] op.type = "DeleteObjects" -> DeleteObjects(t, op.records, fails)

\* The loop over the operations: it stops at the first one that fails. The
\* Execute of operation failAt fails.
RECURSIVE RunOperations(_, _, _, _)
RunOperations(t, ops, i, failAt) ==
    IF i > Len(ops) THEN StmtResult(TRUE, t, 0)
    ELSE LET r == ApplyOperation(t, ops[i], failAt = i)
         IN IF ~r.ok THEN r
            ELSE RunOperations(r.table, ops, i + 1, failAt)

\* ------------------------------------------------------------------------
\* DatabaseMariaDB: change-sets in one session (SpecChangeSet)
\* ------------------------------------------------------------------------

\* The transaction of a session: committed is the table every session sees,
\* work is the table with the session's own statements applied.
\* mysql_commit publishes the work; a commit that fails publishes nothing.
mysql_commit(committed, work, fails) ==
    [failed |-> fails, table |-> IF fails THEN committed ELSE work]

\* mysql_rollback discards the work; when it fails the session is lost and
\* the server discards the transaction.
mysql_rollback(committed, work, fails) ==
    [failed |-> fails, table |-> committed]

\* What may fail in a call: getting the connection, either mysql_autocommit,
\* the Execute of the operation at, the commit, the rollback, the re-load.
Fault(kind, at) == [kind |-> kind, at |-> at]
NoFault == Fault("none", 0)
FaultsOf(n) ==
    { Fault(k, 0) : k \in {"none", "connect", "autocommit_off", "commit",
                           "rollback", "autocommit_on", "load"} }
        \cup { Fault("execute", i) : i \in 1..n }
FailAt(fault) == IF fault.kind = "execute" THEN fault.at ELSE 0

\* A standard change-set.
DBStandardChangeSet(inserts, updates, deletes) ==
    [inserts |-> inserts, updates |-> updates, deletes |-> deletes]

\* The statements of a standard change-set in the order
\* ProcessStandardChangeSet executes them: the inserts, the updates, and the
\* deletes when there are any.
StandardOperations(changes) ==
    [i \in 1..Len(changes.inserts) |->
        DBOperationalChange("DBOP_INSERT", changes.inserts[i])]
    \o [i \in 1..Len(changes.updates) |->
        DBOperationalChange("DBOP_UPDATE", changes.updates[i])]
    \o (IF Len(changes.deletes) > 0
        THEN << [type |-> "DeleteObjects", records |-> changes.deletes] >>
        ELSE << >>)

\* A handler that commits whatever its loop did.
CommitOrRollbackAlwaysCommits(t, r, fault) ==
    mysql_commit(t, r.table, fault.kind = "commit")

\* Commit or roll back, as both change-set handlers do after their loop.
CommitOrRollback(t, r, fault) ==
    IF r.ok THEN mysql_commit(t, r.table, fault.kind = "commit")
    ELSE mysql_rollback(t, r.table, fault.kind = "rollback")

\* A handler that leaves autocommit on: every statement is published as it
\* is executed.
ProcessStandardChangeSetNoTransaction(t, changes, fault) ==
    IF fault.kind = "connect"
    THEN [result |-> FALSE, table |-> t]
    ELSE LET r == RunOperations(t, StandardOperations(changes), 1,
                      FailAt(fault))
         IN [result |-> r.ok, table |-> r.table]

\* DatabaseMariaDB::ProcessStandardChangeSet on the committed table t.
ProcessStandardChangeSet(t, changes, fault) ==
    IF fault.kind \in {"connect", "autocommit_off"}
    THEN [result |-> FALSE, table |-> t]
    ELSE LET r == RunOperations(t, StandardOperations(changes), 1,
                      FailAt(fault))
             end == CommitOrRollback(t, r, fault)
         IN [result |-> /\ r.ok
                        /\ ~end.failed
                        /\ fault.kind # "autocommit_on",
             table |-> end.table]

\* The records of the explicit updates of a change-set.
ExplicitObjects(ops) ==
    { ops[i].record.uuid : i \in { j \in 1..Len(ops) :
                                      ops[j].type = "DBOP_EXPLICIT" } }

\* The re-load of the explicit-update objects after the commit, in the order
\* the set of pointers yields them: LoadSingleObject refreshes the object in
\* memory m, and the loop stops at the first object that does not load.
RECURSIVE ReloadObjects(_, _, _, _, _)
ReloadObjects(t, m, order, i, fails) ==
    IF i > Len(order) THEN [result |-> TRUE, mem |-> m]
    ELSE IF fails \/ RowOf(t, order[i]) = NoRow
    THEN [result |-> FALSE, mem |-> m]
    ELSE ReloadObjects(t, [m EXCEPT ![order[i]] = t[order[i]]], order,
             i + 1, FALSE)

\* DatabaseMariaDB::ProcessOperationalChangeSet on the committed table t and
\* the objects in memory m.
ProcessOperationalChangeSet(t, m, ops, fault, order) ==
    IF fault.kind \in {"connect", "autocommit_off"}
    THEN [result |-> FALSE, table |-> t, mem |-> m]
    ELSE LET r == RunOperations(t, ops, 1, FailAt(fault))
             end == CommitOrRollback(t, r, fault)
             result == r.ok /\ ~end.failed
             load == ReloadObjects(end.table, m, order, 1,
                         fault.kind = "load")
         IN IF fault.kind = "autocommit_on"
            THEN [result |-> FALSE, table |-> end.table, mem |-> m]
            ELSE IF result
            THEN [result |-> load.result, table |-> end.table,
                  mem |-> load.mem]
            ELSE [result |-> FALSE, table |-> end.table, mem |-> m]

\* ---- the change-sets a caller may pass ----------------------------------

MaxList == 1
MaxOperations == 2

\* The sequences of at most n elements of S.
SeqsUpTo(S, n) == UNION { [1..k -> S] : k \in 0..n }

FullRow == [c \in Columns |-> 100]
LowRow == [c \in Columns |-> 80]

InsertObjects == { PersistentObject(u, FullRow, {}) : u \in DbUIDs }
UpdateObjects ==
    { PersistentObject(u, LowRow, {"Hp"}) : u \in DbUIDs \cup {NullUUID} }
        \cup { PersistentObject(1, LowRow, {}) }
DeleteInputs == { PersistentObject(u, NoRow, {}) : u \in {NullUUID, 1, 2} }

StandardChangeSets ==
    { DBStandardChangeSet(i, u, d) :
        i \in SeqsUpTo(InsertObjects, MaxList),
        u \in SeqsUpTo(UpdateObjects, MaxList),
        d \in SeqsUpTo(DeleteInputs, MaxList) }

\* Maps of bind values: none, Hp alone, Hp and Mp.
Binds(hp, mp) == [c \in Columns |-> IF c = "Hp" THEN hp ELSE mp]

ExplicitUpdates ==
    { DBExplicitUpdate(1, Binds(100, Unset), Binds(80, Unset)),
      DBExplicitUpdate(1, Binds(100, 100), Binds(80, Unset)),
      DBExplicitUpdate(1, Binds(Unset, Unset), Binds(80, Unset)),
      DBExplicitUpdate(1, Binds(100, Unset), Binds(Unset, Unset)),
      DBExplicitUpdate(1, Binds(80, Unset), Binds(80, Unset)),
      DBExplicitUpdate(2, Binds(100, Unset), Binds(80, Unset)) }

Operations ==
    { DBOperationalChange("DBOP_INSERT", o) : o \in InsertObjects }
        \cup { DBOperationalChange("DBOP_UPDATE", o) :
                 o \in { PersistentObject(1, LowRow, {"Mp"}),
                         PersistentObject(NullUUID, LowRow, {"Mp"}) } }
        \cup { DBOperationalChange("DBOP_DELETE", o) :
                 o \in { PersistentObject(1, NoRow, {}),
                         PersistentObject(2, NoRow, {}) } }
        \cup ExplicitUpdates

OperationalChangeSets == SeqsUpTo(Operations, MaxOperations)

\* The orders a set of at most two UUIDs may be iterated in.
Orders(S) == { o \in SeqsUpTo(S, 2) :
                 /\ Len(o) = Cardinality(S)
                 /\ { o[i] : i \in 1..Len(o) } = S }

\* ---- actions ------------------------------------------------------------

NoCall == [call |-> "none"]

\* A worker calls Database::ProcessChangeSet with a standard change-set.
StandardChangeSet ==
    /\ worker.call = "none"
    /\ \E changes \in StandardChangeSets :
       \E fault \in FaultsOf(Len(StandardOperations(changes))) \
                       {Fault("load", 0)} :
           LET r == ProcessStandardChangeSet(db, changes, fault)
           IN /\ db' = r.table
              /\ worker' = [call |-> "standard", changes |-> changes,
                            operations |-> StandardOperations(changes),
                            fault |-> fault, before |-> db,
                            result |-> r.result]
    /\ UNCHANGED << mem, notDb >>

\* A worker calls Database::ProcessChangeSet with an operational change-set.
OperationalChangeSet ==
    /\ worker.call = "none"
    /\ \E ops \in OperationalChangeSets :
       \E fault \in FaultsOf(Len(ops)), order \in Orders(ExplicitObjects(ops)) :
           LET r == ProcessOperationalChangeSet(db, mem, ops, fault, order)
           IN /\ db' = r.table
              /\ mem' = r.mem
              /\ worker' = [call |-> "operational", changes |-> ops,
                            operations |-> ops,
                            fault |-> fault, before |-> db,
                            result |-> r.result]
    /\ UNCHANGED notDb

\* The table holds any rows; the objects in memory were loaded from it.
InitChangeSet ==
    /\ db \in Tables
    /\ mem = db
    /\ worker = NoCall
    /\ conn = << >>
    /\ net = << >>
    /\ handed = << >>
    /\ sentFrames = << >>
    /\ NoSending
    /\ NoCache
    /\ NoTimer
    /\ NoLibrary

NextChangeSet ==
    \/ StandardChangeSet
    \/ OperationalChangeSet

SpecChangeSet == InitChangeSet /\ [][NextChangeSet]_vars

\* ------------------------------------------------------------------------
\* DatabaseMariaDB: two workers, one row (SpecContention)
\* ------------------------------------------------------------------------

\* Each worker thread has its own connection, so its own session. A session
\* holds the lock of every row it wrote until it commits or rolls back.
DbWorkers == {1, 2}
OtherWorker(w) == 3 - w

\* The row the workers contend for.
ContendedUID == 1

\* A session's statement reads the rows it wrote itself as it left them and
\* every other row as last committed.
View(w) ==
    [u \in DbUIDs |-> IF u \in worker[w].locked THEN worker[w].work[u]
                      ELSE db[u]]

\* The change-sets of the workers: the explicit change (expected Hp = 100,
\* set Hp = 80), the same after an update of Mp, and the reverse change.
ExplicitChange == DBExplicitUpdate(ContendedUID, Binds(100, Unset),
                      Binds(80, Unset))
ContentionChangeSets ==
    { << ExplicitChange >>,
      << DBOperationalChange("DBOP_UPDATE",
             PersistentObject(ContendedUID, LowRow, {"Mp"})),
         ExplicitChange >>,
      << DBExplicitUpdate(ContendedUID, Binds(80, Unset),
             Binds(100, Unset)) >> }

\* ProcessOperationalChangeSet up to its loop: the connection of the thread,
\* autocommit off.
BeginChangeSet(w) ==
    /\ worker[w].pc = "idle"
    /\ worker' = [worker EXCEPT ![w].pc = "running", ![w].start = db,
                                ![w].work = db]
    /\ UNCHANGED << db, mem, notDb >>

\* One pass of the loop: the statement waits for the lock of its row.
ExecuteOperation(w) ==
    LET me == worker[w]
        op == me.ops[me.i]
        r == ApplyOperation(View(w), op, FALSE)
    IN /\ me.pc = "running"
       /\ me.result
       /\ me.i <= Len(me.ops)
       /\ op.record.uuid \notin worker[OtherWorker(w)].locked
       /\ worker' = [worker EXCEPT
              ![w].work = r.table,
              ![w].locked = @ \cup ({op.record.uuid} \cap DbUIDs),
              ![w].result = r.ok,
              ![w].rows = IF op.type = "DBOP_EXPLICIT" THEN r.rows ELSE @,
              ![w].explicit = IF op.type = "DBOP_EXPLICIT"
                              THEN @ \cup {op.record.uuid} ELSE @,
              ![w].i = @ + 1]
       /\ UNCHANGED << db, mem, notDb >>

\* After the loop: commit or rollback, autocommit on; a call that failed
\* returns here.
FinishChangeSet(w) ==
    LET me == worker[w]
        end == CommitOrRollback(db, [ok |-> me.result, table |-> View(w)],
                   NoFault)
    IN /\ me.pc = "running"
       /\ ~me.result \/ me.i > Len(me.ops)
       /\ db' = end.table
       /\ worker' = [worker EXCEPT
              ![w].locked = {},
              ![w].outcome = IF me.result THEN "commit" ELSE "rollback",
              ![w].pc = IF me.result THEN "committed" ELSE "returned"]
       /\ UNCHANGED << mem, notDb >>

\* The re-load of the explicit-update objects of a call that committed; the
\* call returns.
ReloadStep(w) ==
    LET me == worker[w]
    IN /\ me.pc = "committed"
       /\ \E order \in Orders(me.explicit) :
              LET load == ReloadObjects(db, mem, order, 1, FALSE)
              IN /\ mem' = load.mem
                 /\ worker' = [worker EXCEPT ![w].pc = "returned",
                                             ![w].result = load.result]
       /\ UNCHANGED << db, notDb >>

\* The contended row holds any values, the object in memory was loaded from
\* it, and each worker is about to process a change-set.
InitContention ==
    /\ \E row \in Rows :
           db = [u \in DbUIDs |-> IF u = ContendedUID THEN row ELSE NoRow]
    /\ mem = db
    /\ \E o1 \in ContentionChangeSets, o2 \in ContentionChangeSets :
           worker = [w \in DbWorkers |->
                        [pc |-> "idle", ops |-> IF w = 1 THEN o1 ELSE o2,
                         i |-> 1, start |-> db, work |-> db, locked |-> {},
                         result |-> TRUE, rows |-> 0, explicit |-> {},
                         outcome |-> "none", stored |-> db[ContendedUID]]]
    /\ conn = << >>
    /\ net = << >>
    /\ handed = << >>
    /\ sentFrames = << >>
    /\ NoSending
    /\ NoCache
    /\ NoTimer
    /\ NoLibrary

NextContention ==
    \E w \in DbWorkers :
        \/ BeginChangeSet(w)
        \/ ExecuteOperation(w)
        \/ FinishChangeSet(w)
        \/ ReloadStep(w)

SpecContention == InitContention /\ [][NextContention]_vars

\* ------------------------------------------------------------------------
\* DatabaseMariaDB::VerifyAndSetupSchema (SpecSchema)
\* ------------------------------------------------------------------------

\* The registered persistent type: its variables with the column type
\* GetVariableType gives them and their lookup-key flag.
ObjName == "Item"
MetaVariables ==
    << [name |-> "Name", type |-> "text", lookup |-> FALSE],
       [name |-> "Qty", type |-> "int", lookup |-> TRUE] >>
VariableNames == { MetaVariables[i].name : i \in 1..Len(MetaVariables) }

\* A table of the database: whether it exists, the DATA_TYPE of its columns
\* ("" for a column it does not have), the variables that have an index and
\* the UIDs of its rows.
NoTable ==
    [exists |-> FALSE, columns |-> [n \in VariableNames |-> ""],
     indexes |-> {}, rows |-> {}]
TableNames == {ObjName, "Account"}

\* Every row stored in some table of the database.
StoredRows(d) == UNION { d[n].rows : n \in DOMAIN d }

\* The variables without a column, with a column of another type, and the
\* lookup keys without an index.
MissingColumns(t) ==
    { i \in 1..Len(MetaVariables) : t.columns[MetaVariables[i].name] = "" }
MismatchedColumns(t) ==
    { i \in 1..Len(MetaVariables) :
        /\ t.columns[MetaVariables[i].name] # ""
        /\ t.columns[MetaVariables[i].name] # MetaVariables[i].type }
NeedsIndex(t) ==
    { MetaVariables[i].name : i \in { j \in 1..Len(MetaVariables) :
        /\ MetaVariables[j].lookup
        /\ MetaVariables[j].name \notin t.indexes } }

\* DROP TABLE.
DropTable(d, name) == [d EXCEPT ![name] = NoTable]

\* CREATE TABLE IF NOT EXISTS with a column per variable.
CreateTable(d, name) ==
    IF d[name].exists THEN d
    ELSE [d EXCEPT ![name] =
             [exists |-> TRUE,
              columns |-> [n \in VariableNames |->
                  (CHOOSE v \in { MetaVariables[i] : i \in 1..Len(MetaVariables) } :
                       v.name = n).type],
              indexes |-> {}, rows |-> {}]]

\* ALTER TABLE ... ADD for the missing columns up to the one whose ALTER or
\* whose UPDATE of the default value fails.
AddColumns(d, name, fault) ==
    LET missing == MissingColumns(d[name])
        first == CHOOSE i \in missing : \A j \in missing : i <= j
        added == IF fault = "alter" THEN {}
                 ELSE IF fault = "default" THEN {first}
                 ELSE missing
    IN [d EXCEPT ![name].columns =
           [n \in VariableNames |->
               IF \E i \in added : MetaVariables[i].name = n
               THEN (CHOOSE v \in { MetaVariables[i] : i \in added } :
                         v.name = n).type
               ELSE @[n]]]

\* CREATE INDEX for the lookup keys of a new table, or for those that lack
\* one.
CreateIndexes(d, name, creating, needsIndex) ==
    [d EXCEPT ![name].indexes =
        @ \cup { MetaVariables[i].name : i \in { j \in 1..Len(MetaVariables) :
                    /\ MetaVariables[j].lookup
                    /\ creating \/ MetaVariables[j].name \in needsIndex } }]

SchemaFaults ==
    {"none", "columns", "indexes", "drop", "create", "alter", "default",
     "index"}

\* DatabaseMariaDB::VerifyAndSetupSchema on the database d.
VerifyAndSetupSchema(d, recreateTables, autoSchemaUpdate, fault) ==
    LET t == d[ObjName]
        creating0 == ~t.exists
        recreating == /\ t.exists
                      /\ recreateTables \/ MismatchedColumns(t) # {}
        updating == t.exists /\ MissingColumns(t) # {}
        needsIndex == IF t.exists THEN NeedsIndex(t) ELSE {}
        dropped == IF recreating THEN DropTable(d, ObjName) ELSE d
        creating == creating0 \/ recreating
        built == IF creating THEN CreateTable(dropped, ObjName)
                 ELSE IF updating THEN AddColumns(dropped, ObjName, fault)
                 ELSE dropped
        indexing == needsIndex # {} \/ creating
        indexed == IF indexing
                   THEN CreateIndexes(built, ObjName, creating, needsIndex)
                   ELSE built
    IN IF fault \in {"columns", "indexes"}
       THEN [result |-> FALSE, database |-> d]
       ELSE IF recreating /\ ~autoSchemaUpdate
       THEN [result |-> FALSE, database |-> d]
       ELSE IF recreating /\ fault = "drop"
       THEN [result |-> FALSE, database |-> d]
       ELSE IF creating /\ fault = "create"
       THEN [result |-> FALSE, database |-> dropped]
       ELSE IF ~creating /\ updating /\ fault \in {"alter", "default"}
       THEN [result |-> FALSE, database |-> built]
       ELSE IF indexing /\ indexed # built /\ fault = "index"
       THEN [result |-> FALSE, database |-> built]
       ELSE [result |-> TRUE, database |-> indexed]

\* The tables Setup may find: the table of the type absent, or present with
\* any of these column types, indexes and rows.
ExistingTables ==
    {NoTable} \cup
    { [exists |-> TRUE, columns |-> cols, indexes |-> idx, rows |-> rows] :
        cols \in [VariableNames -> {"", "text", "int"}],
        idx \in {{}, {"Qty"}},
        rows \in {{}, {1}, {1, 2}} }

\* Setup calls VerifyAndSetupSchema.
VerifySchema ==
    /\ worker.call = "none"
    /\ \E fault \in SchemaFaults :
           LET r == VerifyAndSetupSchema(db, worker.recreateTables,
                        worker.autoSchemaUpdate, fault)
           IN /\ db' = r.database
              /\ worker' = [worker EXCEPT !.call = "verified",
                                          !.fault = fault,
                                          !.before = db,
                                          !.result = r.result]
    /\ UNCHANGED << mem, notDb >>

InitSchema ==
    /\ \E t \in ExistingTables :
           db = [n \in TableNames |->
                    IF n = ObjName THEN t
                    ELSE [exists |-> TRUE,
                          columns |-> [v \in VariableNames |-> ""],
                          indexes |-> {}, rows |-> {3}]]
    /\ \E recreate \in BOOLEAN, auto \in BOOLEAN :
           worker = [call |-> "none", recreateTables |-> recreate,
                     autoSchemaUpdate |-> auto, fault |-> "none",
                     before |-> db, result |-> FALSE]
    /\ mem = << >>
    /\ conn = << >>
    /\ net = << >>
    /\ handed = << >>
    /\ sentFrames = << >>
    /\ NoSending
    /\ NoCache
    /\ NoTimer
    /\ NoLibrary

NextSchema == VerifySchema

SpecSchema == InitSchema /\ [][NextSchema]_vars

\* ------------------------------------------------------------------------
\* DatabaseMariaDB::Setup: the migrations (SpecSetup)
\* ------------------------------------------------------------------------

\* File names are strings of character codes: '-' 45, '.' 46, 'a' 97,
\* 'b' 98, 'n' 110, 't' 116, 'u' 117, 'x' 120.
NutSuffix == << 46, 110, 117, 116 >>
FileNames ==
    { << 97 >> \o NutSuffix,
      << 97, 45, 98 >> \o NutSuffix,
      << 98 >> \o NutSuffix,
      << 98, 46, 116, 120, 116 >>,
      << 97 >> }

\* String::Right and String::Left.
Right(s, n) == SubSeq(s, Len(s) - Min(n, Len(s)) + 1, Len(s))
LeftOf(s, n) == SubSeq(s, 1, Min(n, Len(s)))

\* operator< of two strings.
RECURSIVE LexLess(_, _)
LexLess(s, t) ==
    IF t = << >> THEN FALSE
    ELSE IF s = << >> THEN TRUE
    ELSE IF s[1] # t[1] THEN s[1] < t[1]
    ELSE LexLess(Tail(s), Tail(t))

\* A listing left in the order GetListing gave it.
SortFilesUnsorted(files) == files

\* files.sort().
RECURSIVE SortFiles(_)
SortFiles(files) ==
    IF files = << >> THEN << >>
    ELSE LET least == CHOOSE i \in 1..Len(files) :
                          \A j \in 1..Len(files) :
                              j # i => LexLess(files[i], files[j])
         IN << files[least] >>
            \o SortFiles(SubSeq(files, 1, least - 1)
                   \o SubSeq(files, least + 1, Len(files)))

IsMigrationFile(file) == Right(file, 4) = NutSuffix
MigrationOf(file) == LeftOf(file, Len(file) - 4)

\* The loop over the sorted files. failing are the migrations whose script
\* fails; fault names the query that fails and the file at which it does.
RECURSIVE RunMigrations(_, _, _, _, _, _)
RunMigrations(files, i, recorded, ran, failing, fault) ==
    IF i > Len(files)
    THEN [result |-> TRUE, recorded |-> recorded, ran |-> ran]
    ELSE IF ~IsMigrationFile(files[i])
    THEN RunMigrations(files, i + 1, recorded, ran, failing, fault)
    ELSE LET migration == MigrationOf(files[i])
         IN IF fault = Fault("check", i)
            THEN [result |-> FALSE, recorded |-> recorded, ran |-> ran]
            ELSE IF migration \in recorded
            THEN RunMigrations(files, i + 1, recorded, ran, failing, fault)
            ELSE IF migration \in failing
            THEN [result |-> FALSE, recorded |-> recorded,
                  ran |-> Append(ran, [file |-> files[i], ok |-> FALSE])]
            ELSE IF fault = Fault("record", i)
            THEN [result |-> FALSE, recorded |-> recorded,
                  ran |-> Append(ran, [file |-> files[i], ok |-> TRUE])]
            ELSE RunMigrations(files, i + 1, recorded \cup {migration},
                     Append(ran, [file |-> files[i], ok |-> TRUE]),
                     failing, fault)

\* DatabaseMariaDB::Exists: some table of the database is listed.
Exists(d) ==
    \/ d.migrations.exists
    \/ \E n \in TableNames : d.tables[n].exists

\* DROP DATABASE IF EXISTS and CREATE DATABASE.
EmptyDatabase ==
    [tables |-> [n \in TableNames |-> NoTable],
     migrations |-> [exists |-> FALSE, rows |-> {}]]

\* DatabaseMariaDB::Setup. listing is what GetListing returns for the
\* migration directory: its files, "none" when there is no data store and
\* "missing" when the directory does not exist.
Setup(d, rebuild, autoSchemaUpdate, listing, failing, fault) ==
    LET fail(database) ==
            [result |-> FALSE, database |-> database, ran |-> << >>]
        created == IF Exists(d) THEN d ELSE EmptyDatabase
        schema == VerifyAndSetupSchema(created.tables, rebuild,
                      autoSchemaUpdate,
                      IF fault.kind = "schema" THEN "columns" ELSE "none")
        verified == [created EXCEPT !.tables = schema.database]
        tabled == [verified EXCEPT !.migrations.exists = TRUE]
        run == RunMigrations(SortFiles(listing.files), 1,
                   tabled.migrations.rows,
                   << >>, failing, fault)
    IN IF fault.kind = "closed" THEN fail(d)
       ELSE IF ~Exists(d) /\ fault.kind = "create_database" THEN fail(d)
       ELSE IF fault.kind = "use" THEN fail(created)
       ELSE IF ~schema.result THEN fail(verified)
       ELSE IF ~verified.migrations.exists /\ fault.kind = "create_table"
       THEN fail(verified)
       ELSE IF listing.kind = "none"
       THEN [result |-> TRUE, database |-> tabled, ran |-> << >>]
       ELSE IF listing.kind = "missing" THEN fail(tabled)
       ELSE [result |-> run.result,
             database |-> [tabled EXCEPT !.migrations.rows = run.recorded],
             ran |-> run.ran]

\* ---- inputs -------------------------------------------------------------

MaxFiles == 3

\* The listings of at most MaxFiles files, in any order.
Listing(kind, files) == [kind |-> kind, files |-> files]
Listings ==
    { Listing("files", l) :
        l \in { m \in SeqsUpTo(FileNames, MaxFiles) :
                   \A i \in 1..Len(m), j \in 1..Len(m) :
                       i # j => m[i] # m[j] } }
        \cup { Listing("none", << >>), Listing("missing", << >>) }

Migrations == { MigrationOf(f) : f \in { g \in FileNames : IsMigrationFile(g) } }

SetupFaults ==
    { Fault(k, 0) : k \in {"none", "closed", "create_database", "use",
                           "schema", "create_table"} }
        \cup { Fault(k, i) : k \in {"check", "record"}, i \in 1..MaxFiles }

\* The server calls Setup.
SetupStep ==
    /\ worker.call = "none"
    /\ \E listing \in Listings,
          failing \in {{}} \cup { {m} : m \in Migrations },
          fault \in SetupFaults :
           LET r == Setup(db, FALSE, worker.autoSchemaUpdate, listing,
                        failing, fault)
           IN /\ db' = r.database
              /\ worker' = [worker EXCEPT !.call = "setup",
                                          !.listing = listing,
                                          !.before = db,
                                          !.ran = r.ran,
                                          !.result = r.result]
    /\ UNCHANGED << mem, notDb >>

\* A database that does not exist yet, or one set up before with some of
\* the migrations recorded.
InitSetup ==
    /\ \/ db = EmptyDatabase
       \/ \E recorded \in SUBSET Migrations, rows \in {{}, {1}} :
              db = [tables |-> [n \in TableNames |->
                        IF n = ObjName
                        THEN [CreateTable([m \in TableNames |-> NoTable],
                                  ObjName)[ObjName] EXCEPT !.rows = rows,
                                  !.indexes = {"Qty"}]
                        ELSE NoTable],
                    migrations |-> [exists |-> TRUE, rows |-> recorded]]
    /\ \E auto \in BOOLEAN :
           worker = [call |-> "none", autoSchemaUpdate |-> auto,
                     listing |-> Listing("none", << >>), before |-> db,
                     ran |-> << >>,
                     result |-> FALSE]
    /\ mem = << >>
    /\ conn = << >>
    /\ net = << >>
    /\ handed = << >>
    /\ sentFrames = << >>
    /\ NoSending
    /\ NoCache
    /\ NoTimer
    /\ NoLibrary

NextSetup == SetupStep

SpecSetup == InitSetup /\ [][NextSetup]_vars

\* ------------------------------------------------------------------------
\* TimerManager (SpecTimer)
\* ------------------------------------------------------------------------

\* The timer record holds
\*   mEvents            the events in the set, which orders them by time
\*   alive              the events allocated and not deleted
\*   periodic           mIsPeriodic of each event
\*   mProcessingEvents  the flag of ProcessEvents
\*   pc, cur            where the timer thread is: "wait" in WaitForEvent,
\*                      "loop" in the loop of ProcessEvents with mEventLock
\*                      held, "run" in msg->Run() of the event cur with the
\*                      lock released
\*   periodicals        the local list of ProcessEvents
\*   executing, runs    per event, the executions of its callback in
\*                      progress and the executions started so far
\*   cancelled          per event, what CancelEvent found when it was called:
\*                      whether the callback of the event itself or of
\*                      another event was executing, mIsPeriodic and runs
\* Times are not modelled: which event is first in the set and whether it is
\* due are choices of the step, and no two events have the same time.
MaxEvents == 2
MaxRuns == 3
TimerEvents == 1..MaxEvents

NotCancelled == [done |-> FALSE, own |-> FALSE, other |-> FALSE,
                 periodic |-> FALSE, runs |-> 0]

\* TimerManager::TimerManager: no event, the thread about to process.
NewTimerManager ==
    [mEvents |-> {}, alive |-> {}, used |-> {},
     periodic |-> [e \in TimerEvents |-> FALSE],
     mProcessingEvents |-> FALSE, pc |-> "wait", cur |-> 0,
     periodicals |-> << >>,
     executing |-> [e \in TimerEvents |-> 0],
     runs |-> [e \in TimerEvents |-> 0],
     cancelled |-> [e \in TimerEvents |-> NotCancelled]]

\* mEventLock is free: the thread waits on the condition or has unlocked it
\* around the callback.
LockFree(t) == t.pc \in {"wait", "run"}

\* msg->Run() executes the callback on the calling thread: it has returned
\* when the callback is over.
RunReturned(t) == t.executing[t.cur] = 0

\* TimerManager::RegisterEvent and RegisterPeriodicEvent.
RegisterEvent(t, e, periodic) ==
    [t EXCEPT !.mEvents = @ \cup {e}, !.alive = @ \cup {e},
              !.used = @ \cup {e}, !.periodic[e] = periodic]

\* A CancelEvent without the test of mProcessingEvents.
CancelEventAlwaysErases(t, e) ==
    IF e \in t.mEvents
    THEN [t EXCEPT !.mEvents = @ \ {e}, !.alive = @ \ {e}]
    ELSE t

\* TimerManager::CancelEvent.
CancelEvent(t, e) ==
    IF t.mProcessingEvents THEN [t EXCEPT !.periodic[e] = FALSE]
    ELSE IF e \in t.mEvents
    THEN [t EXCEPT !.mEvents = @ \ {e}, !.alive = @ \ {e}]
    ELSE t

\* ProcessEvents: the event e is first and due; it leaves the set and its
\* callback starts, the lock released.
RunEvent(t, e) ==
    [t EXCEPT !.mEvents = @ \ {e}, !.cur = e, !.pc = "run",
              !.executing[e] = @ + 1, !.runs[e] = @ + 1]

\* ProcessEvents after the callback: a periodic event goes to the local
\* list, any other is deleted.
AfterRun(t) ==
    IF t.periodic[t.cur]
    THEN [t EXCEPT !.periodicals = Append(@, t.cur), !.pc = "loop"]
    ELSE [t EXCEPT !.alive = @ \ {t.cur}, !.pc = "loop"]

\* ProcessEvents after the loop: the periodic events return to the set.
EndProcessing(t) ==
    [t EXCEPT !.mEvents = @ \cup { t.periodicals[i] :
                                     i \in 1..Len(t.periodicals) },
              !.periodicals = << >>,
              !.mProcessingEvents = FALSE, !.pc = "wait"]

\* ---- actions ------------------------------------------------------------

\* A thread registers a one-shot or a periodic event.
RegisterStep_Timer(e) ==
    /\ LockFree(timer)
    /\ e \notin timer.used
    /\ \E periodic \in BOOLEAN : timer' = RegisterEvent(timer, e, periodic)
    /\ UNCHANGED notTimer

\* A thread, or a callback, cancels an event it registered and that was not
\* deleted.
CancelStep(e) ==
    /\ LockFree(timer)
    /\ e \in timer.alive
    /\ ~timer.cancelled[e].done
    /\ timer' = [CancelEvent(timer, e) EXCEPT !.cancelled[e] =
                    [done |-> TRUE,
                     own |-> timer.executing[e] > 0,
                     other |-> \E d \in TimerEvents \ {e} :
                                   timer.executing[d] > 0,
                     periodic |-> timer.periodic[e],
                     runs |-> timer.runs[e]]]
    /\ UNCHANGED notTimer

\* The timer thread wakes up and enters ProcessEvents.
StartProcessing ==
    /\ timer.pc = "wait"
    /\ timer' = [timer EXCEPT !.mProcessingEvents = TRUE, !.pc = "loop"]
    /\ UNCHANGED notTimer

\* The loop finds the event e first and due.
FireEvent(e) ==
    /\ timer.pc = "loop"
    /\ e \in timer.mEvents
    /\ timer.runs[e] < MaxRuns
    /\ timer' = RunEvent(timer, e)
    /\ UNCHANGED notTimer

\* The callback of an event is over.
CallbackEnds(e) ==
    /\ timer.executing[e] > 0
    /\ timer' = [timer EXCEPT !.executing[e] = @ - 1]
    /\ UNCHANGED notTimer

\* A thread that goes on while the callback it started still executes.
RunReturnsEarly ==
    /\ timer.pc = "run"
    /\ timer' = AfterRun(timer)
    /\ UNCHANGED notTimer

\* Run has returned: the thread takes the lock again.
RunReturns ==
    /\ timer.pc = "run"
    /\ RunReturned(timer)
    /\ timer' = AfterRun(timer)
    /\ UNCHANGED notTimer

\* The loop finds the set empty or its first event not due.
StopProcessing ==
    /\ timer.pc = "loop"
    /\ timer' = EndProcessing(timer)
    /\ UNCHANGED notTimer

InitTimer ==
    /\ timer = NewTimerManager
    /\ conn = << >>
    /\ net = << >>
    /\ handed = << >>
    /\ sentFrames = << >>
    /\ NoSending
    /\ NoCache
    /\ NoDatabase
    /\ NoLibrary

NextTimer ==
    \/ \E e \in TimerEvents :
           \/ RegisterStep_Timer(e)
           \/ CancelStep(e)
           \/ FireEvent(e)
           \/ CallbackEnds(e)
    \/ StartProcessing
    \/ RunReturns
    \/ StopProcessing

SpecTimer == InitTimer /\ [][NextTimer]_vars

\* ------------------------------------------------------------------------
\* TimerManager: the timer thread, the clock and the destructor
\* (SpecTimerThread, SpecTimerStop)
\* ------------------------------------------------------------------------

\* Here the timer record holds the steady clock and, per event, its time
\* and its period:
\*   clock              steady_clock::now()
\*   mRunning           the flag of the thread's loop
\*   mEvents, time, period, periodic, mProcessingEvents, periodicals
\*   now                the time ProcessEvents read when it was entered
\*   pc, cur            where the timer thread is: "check" at while
\*                      (mRunning) with mEventLock not held, "loop" in the
\*                      loop of ProcessEvents, "run" in msg->Run() of cur,
\*                      "wait" blocked on mEventCondition, "exited"
\*   dtor               where ~TimerManager is: "none", "notify" after
\*                      mRunning = false, "join" after notify_all, "done"
\*   began, ended       per event, the clock when its last callback began
\*                      and returned
\*   late               per event, whether its last callback ran longer
\*                      than its period
\*   fired              per event, the callbacks started so far
\* The clock stops at MaxTime; there every deadline counts as passed.
MaxTime == 4
Periods == {1, 2}
ClockEvents == {1, 2}

NewTimerThread ==
    [clock |-> 0, mRunning |-> TRUE, mEvents |-> {}, used |-> {},
     time |-> [e \in ClockEvents |-> 0],
     period |-> [e \in ClockEvents |-> 0],
     periodic |-> [e \in ClockEvents |-> FALSE],
     mProcessingEvents |-> FALSE, now |-> 0, pc |-> "check", cur |-> 0,
     periodicals |-> << >>, dtor |-> "none",
     began |-> [e \in ClockEvents |-> 0],
     ended |-> [e \in ClockEvents |-> 0],
     late |-> [e \in ClockEvents |-> FALSE],
     fired |-> [e \in ClockEvents |-> 0]]

\* TimerEventComp: the events that may be *mEvents.begin(), those of the
\* least time.
FirstEvents(t) ==
    { e \in t.mEvents : \A d \in t.mEvents : t.time[e] <= t.time[d] }

\* mEventCondition.notify_all(): a thread blocked on the condition leaves
\* the wait; a thread that is anywhere else is not told.
NotifyAll(t) == IF t.pc = "wait" THEN [t EXCEPT !.pc = "check"] ELSE t

\* mEventLock is not held by the timer thread.
ThreadUnlocked(t) == t.pc \in {"check", "run", "wait", "exited"}

\* TimerManager::RegisterEvent with its time point.
RegisterEventAt(t, e, time) ==
    NotifyAll([t EXCEPT !.mEvents = @ \cup {e}, !.used = @ \cup {e},
                        !.time[e] = time])

\* TimerManager::RegisterPeriodicEvent with its period.
RegisterPeriodicEvent(t, e, period) ==
    NotifyAll([t EXCEPT !.mEvents = @ \cup {e}, !.used = @ \cup {e},
                        !.time[e] = t.clock + period,
                        !.period[e] = period, !.periodic[e] = TRUE])

\* The thread's while (mRunning): it leaves, or takes the lock and enters
\* ProcessEvents, which reads the clock once.
EnterProcessEvents(t) ==
    IF ~t.mRunning THEN [t EXCEPT !.pc = "exited"]
    ELSE [t EXCEPT !.pc = "loop", !.now = t.clock,
                   !.mProcessingEvents = TRUE]

\* ProcessEvents: the first event e is due; it leaves the set and its
\* callback starts, the lock released.
RunDueEvent(t, e) ==
    [t EXCEPT !.mEvents = @ \ {e}, !.cur = e, !.pc = "run",
              !.began[e] = t.clock, !.fired[e] = @ + 1]

\* A re-arm that counts the period from the return of the callback.
RearmFromNow(t) ==
    LET e == t.cur
        over == [t EXCEPT !.ended[e] = t.clock,
                          !.late[e] = t.clock - t.began[e] > t.period[e],
                          !.pc = "loop"]
    IN IF t.periodic[e]
       THEN [over EXCEPT !.time[e] = t.clock + t.period[e],
                         !.periodicals = Append(@, e)]
       ELSE over

\* ProcessEvents after the callback returned: a periodic event gets its
\* next time, one period after the last, and goes to the local list.
Rearm(t) ==
    LET e == t.cur
        over == [t EXCEPT !.ended[e] = t.clock,
                          !.late[e] = t.clock - t.began[e] > t.period[e],
                          !.pc = "loop"]
    IN IF t.periodic[e]
       THEN [over EXCEPT !.time[e] = @ + t.period[e],
                         !.periodicals = Append(@, e)]
       ELSE over

\* ProcessEvents after its loop, then WaitForEvent: the periodic events
\* return to the set and the thread blocks on the condition, with the time
\* of the first event as its deadline when there is one.
WaitForEvent(t) ==
    [t EXCEPT !.mEvents = @ \cup { t.periodicals[i] :
                                     i \in 1..Len(t.periodicals) },
              !.periodicals = << >>,
              !.mProcessingEvents = FALSE, !.pc = "wait"]

\* The deadline of wait_until has passed.
DeadlinePassed(t) ==
    /\ t.mEvents # {}
    /\ \/ \E e \in FirstEvents(t) : t.time[e] <= t.clock
       \/ t.clock = MaxTime

\* ---- actions ------------------------------------------------------------

\* Time passes.
ClockTick ==
    /\ timer.clock < MaxTime
    /\ timer' = [timer EXCEPT !.clock = @ + 1]
    /\ UNCHANGED notTimer

\* A thread registers a one-shot event for some time.
RegisterEventStep(e) ==
    /\ ThreadUnlocked(timer)
    /\ timer.dtor = "none"
    /\ e \notin timer.used
    /\ \E time \in 0..MaxTime : timer' = RegisterEventAt(timer, e, time)
    /\ UNCHANGED notTimer

\* A thread registers a periodic event.
RegisterPeriodicStep(e) ==
    /\ ThreadUnlocked(timer)
    /\ timer.dtor = "none"
    /\ e \notin timer.used
    /\ \E period \in Periods :
           timer' = RegisterPeriodicEvent(timer, e, period)
    /\ UNCHANGED notTimer

\* The timer thread tests mRunning.
ThreadCheck ==
    /\ timer.pc = "check"
    /\ timer' = EnterProcessEvents(timer)
    /\ UNCHANGED notTimer

\* The loop of ProcessEvents runs the first event, which is due.
ThreadFire ==
    /\ timer.pc = "loop"
    /\ \E e \in FirstEvents(timer) :
           /\ timer.time[e] <= timer.now
           /\ timer' = RunDueEvent(timer, e)
    /\ UNCHANGED notTimer

\* The callback returns and the thread takes the lock again.
ThreadRunReturns ==
    /\ timer.pc = "run"
    /\ timer' = Rearm(timer)
    /\ UNCHANGED notTimer

\* The loop finds the set empty or its first event not due; the thread
\* goes to WaitForEvent.
ThreadWait ==
    /\ timer.pc = "loop"
    /\ \A e \in FirstEvents(timer) : timer.time[e] > timer.now
    /\ timer' = WaitForEvent(timer)
    /\ UNCHANGED notTimer

\* wait_until returns because its deadline passed.
TimedWake ==
    /\ timer.pc = "wait"
    /\ DeadlinePassed(timer)
    /\ timer' = [timer EXCEPT !.pc = "check"]
    /\ UNCHANGED notTimer

\* The wait returns without a notification, as a condition variable may.
SpuriousWake ==
    /\ timer.pc = "wait"
    /\ ~DeadlinePassed(timer)
    /\ timer' = [timer EXCEPT !.pc = "check"]
    /\ UNCHANGED notTimer

\* ~TimerManager: mRunning = false.
DestructorStop ==
    /\ timer.dtor = "none"
    /\ timer' = [timer EXCEPT !.mRunning = FALSE, !.dtor = "notify"]
    /\ UNCHANGED notTimer

\* ~TimerManager: mEventCondition.notify_all(), mEventLock not taken.
DestructorNotify ==
    /\ timer.dtor = "notify"
    /\ timer' = [NotifyAll(timer) EXCEPT !.dtor = "join"]
    /\ UNCHANGED notTimer

\* ~TimerManager: mRunThread.join() returns once the thread has exited.
DestructorJoin ==
    /\ timer.dtor = "join"
    /\ timer.pc = "exited"
    /\ timer' = [timer EXCEPT !.dtor = "done"]
    /\ UNCHANGED notTimer

InitTimerThread ==
    /\ timer = NewTimerThread
    /\ conn = << >>
    /\ net = << >>
    /\ handed = << >>
    /\ sentFrames = << >>
    /\ NoSending
    /\ NoCache
    /\ NoDatabase
    /\ NoLibrary

TimerThreadSteps ==
    \/ ThreadCheck
    \/ ThreadFire
    \/ ThreadRunReturns
    \/ ThreadWait
    \/ TimedWake

DestructorSteps ==
    \/ DestructorStop
    \/ DestructorNotify
    \/ DestructorJoin

NextTimerThread ==
    \/ ClockTick
    \/ \E e \in ClockEvents :
           \/ RegisterEventStep(e)
           \/ RegisterPeriodicStep(e)
    \/ TimerThreadSteps
    \/ SpuriousWake
    \/ DestructorSteps

SpecTimerThread == InitTimerThread /\ [][NextTimerThread]_vars

\* The scheduler runs the timer thread and the thread that destroys the
\* manager whenever they can take a step, and time passes; nothing makes a
\* wait return without a notification.
SpecTimerStop ==
    /\ SpecTimerThread
    /\ WF_vars(TimerThreadSteps)
    /\ WF_vars(DestructorSteps)
    /\ WF_vars(ClockTick)

\* ------------------------------------------------------------------------
\* ReadOnlyPacket / Packet: the cursor (SpecPacket)
\* ------------------------------------------------------------------------

\* The packet record holds mPosition and mSize; the buffer is a PacketArray
\* of MAX_PACKET_SIZE bytes. threw tells whether the last operation threw a
\* PacketException, which leaves the packet as it was.
\*   op, arg   the last operation and its argument
\*   before    mPosition before the last operation
NewPacket == [mPosition |-> 0, mSize |-> 0, threw |-> FALSE]

Threw(p) == [p EXCEPT !.threw = TRUE]

\* ReadOnlyPacket::Seek.
Seek(p, pos) ==
    IF MAX_PACKET_SIZE < pos THEN Threw(p)
    ELSE [p EXCEPT !.mPosition = pos]

\* A Skip that sets the position to its argument.
SkipTo(p, sz) ==
    IF sz = 0 THEN p
    ELSE IF SkipThrows(p.mPosition, sz) THEN Threw(p)
    ELSE [p EXCEPT !.mPosition = sz]

\* ReadOnlyPacket::Skip.
Skip(p, sz) ==
    IF sz = 0 THEN p
    ELSE IF SkipThrows(p.mPosition, sz) THEN Threw(p)
    ELSE [p EXCEPT !.mPosition = (@ + sz) % U32]

\* ReadOnlyPacket::Rewind().
Rewind(p) == [p EXCEPT !.mPosition = 0]

\* ReadOnlyPacket::Rewind(bytes).
RewindBytes(p, bytes) ==
    IF bytes = 0 THEN p
    ELSE IF bytes > p.mPosition THEN Threw(p)
    ELSE [p EXCEPT !.mPosition = @ - bytes]

\* ReadOnlyPacket::End.
End(p) == [p EXCEPT !.mPosition = p.mSize]

\* ReadOnlyPacket::ReadArray(sz), the check every read starts with.
ReadArray(p, sz) ==
    IF sz = 0 THEN p
    ELSE IF (p.mPosition + sz) % U32 > p.mSize THEN Threw(p)
    ELSE Skip(p, sz)

\* Packet::GrowPacket: room for count bytes at the cursor, the size grown
\* to their end when they pass it.
GrowPacket(p, count) ==
    IF count = 0 THEN p
    ELSE IF (p.mPosition + count) % U32 > MAX_PACKET_SIZE THEN Threw(p)
    ELSE IF (p.mPosition + count) % U32 > p.mSize
    THEN [p EXCEPT !.mSize = (p.mPosition + count) % U32]
    ELSE p

\* Packet::WriteBlank, WriteArray and the scalar writes: count bytes are
\* written at the cursor, which then skips them.
WriteBytes(p, count) ==
    LET g == GrowPacket(p, count)
    IN IF g.threw THEN g ELSE Skip(g, count)

\* Packet::EraseRight and Packet::Clear.
EraseRight(p) == [p EXCEPT !.mSize = p.mPosition]
Clear(p) == [p EXCEPT !.mSize = 0, !.mPosition = 0]

\* ---- inputs -------------------------------------------------------------

\* Positions and byte counts: small ones, those at the cap, and the
\* largest values of a uint32_t.
Positions == {0, 1, 2, 3, MAX_PACKET_SIZE - 1, MAX_PACKET_SIZE,
              MAX_PACKET_SIZE + 1, U32 - 1}
Counts == {0, 1, 2, 3, 4, MAX_PACKET_SIZE, U32 - 2, U32 - 1}
WriteCounts == {0, 1, 2, 3, 4, MAX_PACKET_SIZE}

\* The packet after an operation, with what the operation was.
Did(p, op, arg, q) ==
    [mPosition |-> q.mPosition, mSize |-> q.mSize, threw |-> q.threw,
     op |-> op, arg |-> arg, before |-> p.mPosition]

Fresh(p) == [mPosition |-> p.mPosition, mSize |-> p.mSize, threw |-> FALSE]

\* ---- actions ------------------------------------------------------------

SeekStep ==
    /\ \E pos \in Positions :
           pkt' = Did(pkt, "Seek", pos, Seek(Fresh(pkt), pos))
    /\ UNCHANGED << notLib, sdm, store, server >>

SkipStep ==
    /\ \E sz \in Counts :
           pkt' = Did(pkt, "Skip", sz, Skip(Fresh(pkt), sz))
    /\ UNCHANGED << notLib, sdm, store, server >>

RewindStep ==
    /\ \/ pkt' = Did(pkt, "Rewind", pkt.mPosition, Rewind(Fresh(pkt)))
       \/ \E bytes \in Counts :
              pkt' = Did(pkt, "Rewind", bytes,
                         RewindBytes(Fresh(pkt), bytes))
    /\ UNCHANGED << notLib, sdm, store, server >>

EndStep ==
    /\ pkt' = Did(pkt, "End", 0, End(Fresh(pkt)))
    /\ UNCHANGED << notLib, sdm, store, server >>

ReadStep ==
    /\ \E sz \in Counts :
           pkt' = Did(pkt, "Read", sz, ReadArray(Fresh(pkt), sz))
    /\ UNCHANGED << notLib, sdm, store, server >>

WriteStep ==
    /\ \E count \in WriteCounts :
           pkt' = Did(pkt, "Write", count, WriteBytes(Fresh(pkt), count))
    /\ UNCHANGED << notLib, sdm, store, server >>

EraseStep ==
    /\ \/ pkt' = Did(pkt, "EraseRight", 0, EraseRight(Fresh(pkt)))
       \/ pkt' = Did(pkt, "Clear", 0, Clear(Fresh(pkt)))
    /\ UNCHANGED << notLib, sdm, store, server >>

InitPacket ==
    /\ pkt = Did(NewPacket, "Packet", 0, NewPacket)
    /\ conn = << >>
    /\ net = << >>
    /\ handed = << >>
    /\ sentFrames = << >>
    /\ NoSending
    /\ NoCache
    /\ NoDatabase
    /\ NoTimer
    /\ NoServerData
    /\ NoDataStore
    /\ NoTcpServer

NextPacket ==
    \/ SeekStep
    \/ SkipStep
    \/ RewindStep
    \/ EndStep
    \/ ReadStep
    \/ WriteStep
    \/ EraseStep

SpecPacket == InitPacket /\ [][NextPacket]_vars

\* ------------------------------------------------------------------------
\* ServerDataManager::GetZoneData (SpecZoneData)
\* ------------------------------------------------------------------------

\* The objects of the server data are shared by pointer. A Spawn is held in
\* the store spawn of the record, by its reference; a zone and a partial
\* hold the references of their spawns by key, 0 for no spawn. The spawn
\* groups are held by value: the code copies a group before it edits it.
\* Of the members of a zone the model keeps the drop sets (a set that is
\* united), the spawns, the spawn groups and the spawn location groups
\* (replaced by key) and the triggers (a list that is appended to).
\* The sdm record holds
\*   spawn             the Spawn objects, by reference
\*   mZoneData         of the zone ZoneID, the definitions by dynamic map
\*   mZonePartialData  the partials by ID
\*   mZonePartialMap   by dynamic map, the partials applied automatically
\*   returned          what each call of GetZoneData was given and the
\*                     definition it returned, as it was on return
MaxCalls == 2
ZoneID == 1
DynamicMapIDs == {1, 2}
PartialIDs == {1, 2}
SpawnKeys == {1, 2}
GroupKeys == {1, 2}
LocationGroupKeys == {1}
SpawnRefs == 1..3

Spawn(enemyType, dropSetIDs) ==
    [enemyType |-> enemyType, dropSetIDs |-> dropSetIDs]

NoGroup == [present |-> FALSE, spawns |-> {}]
SpawnGroup(spawns) == [present |-> TRUE, spawns |-> spawns]

NoLocationGroup == [present |-> FALSE, groupIDs |-> {}]
SpawnLocationGroup(groupIDs) == [present |-> TRUE, groupIDs |-> groupIDs]

NoZone == [id |-> 0]
NoPartial == [id |-> 0]

\* objects::ServerZone and its copy constructor: the copy holds the same
\* references.
ServerZone(dynamicMapID, dropSetIDs, spawns, spawnGroups, spawnLocationGroups, triggers) ==
    [id |-> ZoneID, dynamicMapID |-> dynamicMapID,
     dropSetIDs |-> dropSetIDs, spawns |-> spawns,
     spawnGroups |-> spawnGroups,
     spawnLocationGroups |-> spawnLocationGroups, triggers |-> triggers]

\* objects::ServerZonePartial.
ServerZonePartial(id, autoApply, dynamicMapIDs, dropSetIDs, spawns, spawnGroups, spawnLocationGroups, triggers) ==
    [id |-> id, autoApply |-> autoApply, dynamicMapIDs |-> dynamicMapIDs,
     dropSetIDs |-> dropSetIDs, spawns |-> spawns,
     spawnGroups |-> spawnGroups,
     spawnLocationGroups |-> spawnLocationGroups, triggers |-> triggers]

\* A set of keys in ascending order.
RECURSIVE Ascending(_)
Ascending(S) ==
    IF S = {} THEN << >>
    ELSE LET m == CHOOSE x \in S : \A y \in S : x <= y
         IN << m >> \o Ascending(S \ {m})

\* ApplyZonePartial, "Update spawns": a spawn with an enemy type replaces
\* the spawn of its key; one without appends its lists to the spawn the
\* zone holds under the key.
RECURSIVE UpdateSpawns(_, _, _, _)
UpdateSpawns(zone, spawn, partial, keys) ==
    IF keys = << >> THEN [zone |-> zone, spawn |-> spawn]
    ELSE LET k == Head(keys)
             ref == partial.spawns[k]
             existing == zone.spawns[k]
         IN IF ref = 0
            THEN UpdateSpawns(zone, spawn, partial, Tail(keys))
            ELSE IF spawn[ref].enemyType # 0
            THEN UpdateSpawns([zone EXCEPT !.spawns[k] = ref], spawn,
                              partial, Tail(keys))
            ELSE IF existing # 0
            THEN UpdateSpawns(zone,
                     [spawn EXCEPT ![existing].dropSetIDs =
                          @ \o spawn[ref].dropSetIDs],
                     partial, Tail(keys))
            ELSE UpdateSpawns(zone, spawn, partial, Tail(keys))

\* ServerDataManager::ApplyZonePartial(zone, partial, positionReplace).
ApplyPartial(zone, spawn, partial) ==
    LET merged == [zone EXCEPT
                       !.dropSetIDs = @ \cup partial.dropSetIDs,
                       !.spawnGroups =
                           [g \in GroupKeys |->
                               IF partial.spawnGroups[g].present
                               THEN partial.spawnGroups[g] ELSE @[g]],
                       !.spawnLocationGroups =
                           [l \in LocationGroupKeys |->
                               IF partial.spawnLocationGroups[l].present
                               THEN partial.spawnLocationGroups[l]
                               ELSE @[l]],
                       !.triggers = @ \o partial.triggers]
    IN UpdateSpawns(merged, spawn, partial, Ascending(SpawnKeys))

\* ServerDataManager::ApplyZonePartial(zone, partialID) for each of the
\* IDs in turn; ok is FALSE when one is no partial.
RECURSIVE ApplyZonePartials(_, _, _, _)
ApplyZonePartials(d, zone, spawn, ids) ==
    IF ids = << >> THEN [ok |-> TRUE, zone |-> zone, spawn |-> spawn]
    ELSE IF Head(ids) = 0 \/ d.mZonePartialData[Head(ids)] = NoPartial
    THEN [ok |-> FALSE, zone |-> zone, spawn |-> spawn]
    ELSE LET r == ApplyPartial(zone, spawn,
                      d.mZonePartialData[Head(ids)])
         IN ApplyZonePartials(d, r.zone, r.spawn, Tail(ids))

\* GetZoneData, "validate spawn information": a group that lost some of
\* its spawns is copied and edited, one that lost all is removed.
RECURSIVE ValidateSpawnGroups(_, _, _)
ValidateSpawnGroups(zone, keys, sgRemoves) ==
    IF keys = << >>
    THEN [zone EXCEPT !.spawnGroups =
              [g \in GroupKeys |-> IF g \in sgRemoves THEN NoGroup
                                   ELSE @[g]]]
    ELSE LET g == Head(keys)
             sg == zone.spawnGroups[g]
             missingSpawns == { s \in sg.spawns : zone.spawns[s] = 0 }
         IN IF ~sg.present \/ missingSpawns = {}
            THEN ValidateSpawnGroups(zone, Tail(keys), sgRemoves)
            ELSE IF Cardinality(missingSpawns) < Cardinality(sg.spawns)
            THEN ValidateSpawnGroups(
                     [zone EXCEPT !.spawnGroups[g].spawns = @ \ sgRemoves],
                     Tail(keys), sgRemoves)
            ELSE ValidateSpawnGroups(zone, Tail(keys),
                                     sgRemoves \cup {g})

\* GetZoneData, the spawn location groups: one that lost some of its spawn
\* groups is copied and edited, one that lost all is removed. sgRemoves
\* are the spawn groups removed before.
RECURSIVE ValidateSpawnLocationGroups(_, _, _, _)
ValidateSpawnLocationGroups(zone, keys, sgRemoves, slgRemoves) ==
    IF keys = << >>
    THEN [zone EXCEPT !.spawnLocationGroups =
              [l \in LocationGroupKeys |->
                  IF l \in slgRemoves THEN NoLocationGroup ELSE @[l]]]
    ELSE LET l == Head(keys)
             slg == zone.spawnLocationGroups[l]
             missingGroups ==
                 { g \in slg.groupIDs : ~zone.spawnGroups[g].present }
         IN IF ~slg.present \/ missingGroups = {}
            THEN ValidateSpawnLocationGroups(zone, Tail(keys), sgRemoves,
                                             slgRemoves)
            ELSE IF Cardinality(missingGroups) < Cardinality(slg.groupIDs)
            THEN ValidateSpawnLocationGroups(
                     [zone EXCEPT !.spawnLocationGroups[l].groupIDs =
                                      @ \ sgRemoves],
                     Tail(keys), sgRemoves, slgRemoves)
            ELSE ValidateSpawnLocationGroups(zone, Tail(keys), sgRemoves,
                                             slgRemoves \cup {l})

\* GetZoneData, "Now validate spawn information and correct as needed".
ValidateSpawnInformation(zone) ==
    LET groups == ValidateSpawnGroups(zone, Ascending(GroupKeys), {})
        sgRemoves == { g \in GroupKeys : /\ zone.spawnGroups[g].present
                                         /\ ~groups.spawnGroups[g].present }
    IN ValidateSpawnLocationGroups(groups, Ascending(LocationGroupKeys),
                                   sgRemoves, {})

\* The partials GetZoneData gathers: those applied automatically to the
\* dynamic map and the extra ones that are loaded, not automatic and for
\* every map or for this one.
GatherPartialIDs(d, zone, extraPartialIDs) ==
    d.mZonePartialMap[zone.dynamicMapID]
        \cup { p \in extraPartialIDs \cap PartialIDs :
                 /\ d.mZonePartialData[p] # NoPartial
                 /\ ~d.mZonePartialData[p].autoApply
                 /\ \/ d.mZonePartialData[p].dynamicMapIDs = {}
                    \/ zone.dynamicMapID
                           \in d.mZonePartialData[p].dynamicMapIDs }

\* ServerDataManager::GetZoneData: the zone returned and the spawns.
GetZoneData(d, id, dynamicMapID, applyPartials, extraPartialIDs) ==
    LET loaded == { m \in DynamicMapIDs : d.mZoneData[m] # NoZone }
        zone == IF id # ZoneID \/ loaded = {} THEN NoZone
                ELSE IF dynamicMapID # 0
                THEN (IF dynamicMapID \in loaded
                      THEN d.mZoneData[dynamicMapID] ELSE NoZone)
                ELSE d.mZoneData[Head(Ascending(loaded))]
        partialIDs == GatherPartialIDs(d, zone, extraPartialIDs)
    IN IF ~applyPartials \/ zone = NoZone \/ partialIDs = {}
       THEN [zone |-> zone, spawn |-> d.spawn]
       ELSE LET r == ApplyZonePartials(d, zone, d.spawn,
                         Ascending(partialIDs))
            IN IF ~r.ok THEN [zone |-> NoZone, spawn |-> r.spawn]
               ELSE [zone |-> ValidateSpawnInformation(r.zone),
                     spawn |-> r.spawn]

\* A definition as it is when GetZoneData returns it: its spawns in place
\* of their references.
Resolved(zone, spawn) ==
    IF zone = NoZone THEN zone
    ELSE [zone EXCEPT !.spawns =
              [k \in SpawnKeys |-> IF @[k] = 0 THEN Spawn(0, << >>)
                                   ELSE spawn[@[k]]]]

\* ---- inputs -------------------------------------------------------------

\* The zone of dynamic map 1 holds the spawn 1, the spawn group 1 of it and
\* the spawn location group 1 of that group; the zone of dynamic map 2 is
\* empty. LoadObject<ServerZone> refuses a zone one of whose groups names a
\* spawn or a spawn group the zone lacks.
NoSpawns == [k \in SpawnKeys |-> 0]
NoGroups == [g \in GroupKeys |-> NoGroup]
NoLocationGroups == [l \in LocationGroupKeys |-> NoLocationGroup]
LoadedSpawns ==
    [r \in SpawnRefs |->
        CASE r = 1 -> Spawn(5, << 10 >>)
          [] r = 2 -> Spawn(0, << 20 >>)
          [] OTHER -> Spawn(7, << 30 >>)]
LoadedZones ==
    [m \in DynamicMapIDs |->
        IF m = 1
        THEN ServerZone(1, {10}, [NoSpawns EXCEPT ![1] = 1],
                 [NoGroups EXCEPT ![1] = SpawnGroup({1})],
                 [NoLocationGroups EXCEPT ![1] = SpawnLocationGroup({1})],
                 << >>)
        ELSE ServerZone(2, {}, NoSpawns, NoGroups, NoLocationGroups, << >>)]

\* The partials a server may have loaded: one that appends to the spawn 1,
\* one that defines the spawn 2 and places the spawn groups 1 and 2, one
\* of a trigger, a drop set and the spawn group 2 of the spawns 1 and 2.
\* LoadObject<ServerZonePartial> does not look at what the groups of a
\* partial name.
PartialBodies ==
    { [dropSetIDs |-> {}, spawns |-> [NoSpawns EXCEPT ![1] = 2],
       spawnGroups |-> NoGroups, spawnLocationGroups |-> NoLocationGroups,
       triggers |-> << >>],
      [dropSetIDs |-> {}, spawns |-> [NoSpawns EXCEPT ![2] = 3],
       spawnGroups |-> NoGroups,
       spawnLocationGroups |->
           [NoLocationGroups EXCEPT ![1] = SpawnLocationGroup({1, 2})],
       triggers |-> << >>],
      [dropSetIDs |-> {20}, spawns |-> NoSpawns,
       spawnGroups |-> [NoGroups EXCEPT ![2] = SpawnGroup({1, 2})],
       spawnLocationGroups |-> NoLocationGroups,
       triggers |-> << 1 >>] }
Partials(id) ==
    { NoPartial } \cup
    { ServerZonePartial(id, autoApply, maps, b.dropSetIDs, b.spawns,
                        b.spawnGroups, b.spawnLocationGroups, b.triggers) :
        autoApply \in BOOLEAN, maps \in {{}, {1}}, b \in PartialBodies }

\* LoadObject<ServerZonePartial>: the map of the partials applied
\* automatically.
ZonePartialMap(partials) ==
    [m \in DynamicMapIDs |->
        { p \in PartialIDs : /\ partials[p] # NoPartial
                             /\ partials[p].autoApply
                             /\ m \in partials[p].dynamicMapIDs }]

ZoneInputs ==
    [id : {ZoneID, 2}, dynamicMapID : {0, 1, 2},
     applyPartials : BOOLEAN, extraPartialIDs : SUBSET PartialIDs]

\* ---- actions ------------------------------------------------------------

\* A caller asks for a zone definition.
GetZoneDataStep ==
    /\ Cardinality(sdm.returned) < MaxCalls
    /\ \E in \in ZoneInputs :
           LET r == GetZoneData(sdm, in.id, in.dynamicMapID,
                        in.applyPartials, in.extraPartialIDs)
           IN sdm' = [sdm EXCEPT
                         !.spawn = r.spawn,
                         !.returned = @ \cup
                             {[call |-> Cardinality(sdm.returned) + 1,
                               input |-> in,
                               zone |-> Resolved(r.zone, r.spawn)]}]
    /\ UNCHANGED << notLib, pkt, store, server >>

InitZoneData ==
    /\ \E p1 \in Partials(1), p2 \in Partials(2) :
           LET partials == [p \in PartialIDs |-> IF p = 1 THEN p1 ELSE p2]
           IN sdm = [spawn |-> LoadedSpawns, mZoneData |-> LoadedZones,
                     mZonePartialData |-> partials,
                     mZonePartialMap |-> ZonePartialMap(partials),
                     returned |-> {}]
    /\ conn = << >>
    /\ net = << >>
    /\ handed = << >>
    /\ sentFrames = << >>
    /\ NoSending
    /\ NoCache
    /\ NoDatabase
    /\ NoTimer
    /\ NoPacket
    /\ NoDataStore
    /\ NoTcpServer

NextZoneData == GetZoneDataStep

SpecZoneData == InitZoneData /\ [][NextZoneData]_vars

\* ------------------------------------------------------------------------
\* ServerDataManager::LoadScript (SpecScripts)
\* ------------------------------------------------------------------------

\* Here the sdm record holds
\*   mScripts, mAIScripts  by name, the type of the script loaded under the
\*                         name, "" for none
\*   script, result        the script LoadScript was last given and what it
\*                         returned
\*   before                both maps as they were before that call
\* A script source is what its evaluation gives: whether Eval succeeds,
\* whether define exists and returns 0, the Name and Type define sets, and
\* the functions the source declares.
ScriptNames == {"", "a", "b"}
ScriptTypes == {"", "ai", "AI", "eventcondition", "actiontransform",
                "actioncustom", "bogus"}
ScriptFunctions ==
    { {}, {"prepare"}, {"check"}, {"transform"}, {"transform", "prepare"},
      {"run"} }
ScriptFaults == {"none", "eval"}

ServerScript(name, type, functions, fault) ==
    [Name |-> name, Type |-> type, functions |-> functions,
     fault |-> fault]

\* String::ToLower on the types.
ToLower(type) ==
    IF type = "AI" THEN "ai" ELSE IF type = "ANY" THEN "any" ELSE type

\* The function a script of the type must declare, and the one it must not.
RequiredFunction(type) ==
    CASE type \in {"eventcondition", "eventbranchlogic"} -> "check"
      [] type \in {"actiontransform", "eventtransform"} -> "transform"
      [] type = "actioncustom" -> "run"
      [] type \in {"skilllogic", "webapp"} -> "prepare"
      [] type = "webgame" -> "start"
      [] OTHER -> ""

NoScripts == [n \in ScriptNames \ {""} |-> ""]

\* A LoadScript that keeps the AI scripts with the others.
LoadScriptOneMap(d, s) ==
    LET failed == [d EXCEPT !.result = FALSE]
        type == ToLower(s.Type)
    IN IF s.fault # "none" \/ s.Name = "" \/ s.Type = "" THEN failed
       ELSE IF d.mScripts[s.Name] # "" THEN failed
       ELSE IF type = "ai"
       THEN (IF "prepare" \notin s.functions THEN failed
             ELSE [d EXCEPT !.mScripts[s.Name] = type, !.result = TRUE])
       ELSE IF RequiredFunction(type) = "" THEN failed
       ELSE IF RequiredFunction(type) \notin s.functions THEN failed
       ELSE IF type = "actiontransform" /\ "prepare" \in s.functions
       THEN failed
       ELSE [d EXCEPT !.mScripts[s.Name] = type, !.result = TRUE]

\* ServerDataManager::LoadScript.
LoadScript(d, s) ==
    LET failed == [d EXCEPT !.result = FALSE]
        type == ToLower(s.Type)
    IN IF s.fault # "none" \/ s.Name = "" \/ s.Type = "" THEN failed
       ELSE IF type = "ai"
       THEN (IF d.mAIScripts[s.Name] # "" THEN failed
             ELSE IF "prepare" \notin s.functions THEN failed
             ELSE [d EXCEPT !.mAIScripts[s.Name] = type,
                            !.result = TRUE])
       ELSE IF d.mScripts[s.Name] # "" THEN failed
       ELSE IF RequiredFunction(type) = "" THEN failed
       ELSE IF RequiredFunction(type) \notin s.functions THEN failed
       ELSE IF type \in {"actiontransform", "eventtransform"}
               /\ "prepare" \in s.functions
       THEN failed
       ELSE [d EXCEPT !.mScripts[s.Name] = type, !.result = TRUE]

\* A script LoadScript rejects for nothing but its name: it evaluates, its
\* define succeeds, its type is supported and it declares what the type
\* needs.
WellFormedScript(s) ==
    /\ s.fault = "none"
    /\ s.Name # ""
    /\ s.Type # ""
    /\ IF ToLower(s.Type) = "ai" THEN "prepare" \in s.functions
       ELSE /\ RequiredFunction(ToLower(s.Type)) # ""
            /\ RequiredFunction(ToLower(s.Type)) \in s.functions
            /\ ToLower(s.Type) = "actiontransform"
                   => "prepare" \notin s.functions

ScriptSources ==
    { ServerScript(n, t, f, x) :
        n \in ScriptNames, t \in ScriptTypes, f \in ScriptFunctions,
        x \in ScriptFaults }

\* ---- actions ------------------------------------------------------------

\* A script file is loaded.
LoadScriptStep ==
    /\ \E s \in ScriptSources :
           sdm' = LoadScript([sdm EXCEPT !.script = s,
                                  !.before = [mScripts |-> sdm.mScripts,
                                              mAIScripts |-> sdm.mAIScripts]],
                             s)
    /\ UNCHANGED << notLib, pkt, store, server >>

InitScripts ==
    /\ sdm = [mScripts |-> NoScripts, mAIScripts |-> NoScripts,
              script |-> ServerScript("", "", {}, "eval"),
              result |-> FALSE,
              before |-> [mScripts |-> NoScripts, mAIScripts |-> NoScripts]]
    /\ conn = << >>
    /\ net = << >>
    /\ handed = << >>
    /\ sentFrames = << >>
    /\ NoSending
    /\ NoCache
    /\ NoDatabase
    /\ NoTimer
    /\ NoPacket
    /\ NoDataStore
    /\ NoTcpServer

NextScripts == LoadScriptStep

SpecScripts == InitScripts /\ [][NextScripts]_vars

\* ------------------------------------------------------------------------
\* ServerDataManager::ValidateActions (SpecActions)
\* ------------------------------------------------------------------------

\* An action has its type, its source context and, for a Delay or a Spawn,
\* its child list (GetActions, GetDefeatActions). Here the sdm record
\* holds the list ValidateActions is given, its autoContext and, once it
\* has returned, its result.
MaxActions == 2

\* The action types ValidateActions fails in a non-player context.
PlayerRequiredTypes ==
    {"ADD_REMOVE_ITEMS", "DISPLAY_MESSAGE", "GRANT_SKILLS", "GRANT_XP",
     "PLAY_BGM", "PLAY_SOUND_EFFECT", "SET_HOMEPOINT", "SPECIAL_DIRECTION",
     "STAGE_EFFECT", "UPDATE_COMP", "UPDATE_FLAG", "UPDATE_LNC",
     "UPDATE_QUEST", "ZONE_CHANGE", "ZONE_INSTANCE"}

\* The source contexts in which an action of an automatic context has no
\* player.
NonPlayerContexts == {"ENEMIES", "SOURCE"}

Action(type, sourceContext, actions) ==
    [type |-> type, sourceContext |-> sourceContext, actions |-> actions]

\* A ValidateActions that gives the child lists the context of the whole
\* list in place of the context of the Delay or Spawn.
RECURSIVE ValidateActionsSameContext(_, _)
ValidateActionsSameContext(actions, autoContext) ==
    IF actions = << >> THEN TRUE
    ELSE LET action == Head(actions)
             autoCtx == autoContext
                        /\ action.sourceContext \in NonPlayerContexts
         IN IF action.type \in {"DELAY", "SPAWN"}
            THEN /\ ValidateActionsSameContext(action.actions, autoContext)
                 /\ ValidateActionsSameContext(Tail(actions), autoContext)
            ELSE IF action.type \in PlayerRequiredTypes /\ autoCtx
            THEN FALSE
            ELSE ValidateActionsSameContext(Tail(actions), autoContext)

\* ServerDataManager::ValidateActions.
RECURSIVE ValidateActions(_, _)
ValidateActions(actions, autoContext) ==
    IF actions = << >> THEN TRUE
    ELSE LET action == Head(actions)
             autoCtx == autoContext
                        /\ action.sourceContext \in NonPlayerContexts
         IN IF action.type \in {"DELAY", "SPAWN"}
            THEN /\ ValidateActions(action.actions, autoCtx)
                 /\ ValidateActions(Tail(actions), autoContext)
            ELSE IF action.type \in PlayerRequiredTypes /\ autoCtx
            THEN FALSE
            ELSE ValidateActions(Tail(actions), autoContext)

\* ---- inputs -------------------------------------------------------------

\* Actions without children, lists of them, actions with such a list as
\* their child list, and actions whose child list holds a Delay or a Spawn
\* with a child of its own.
LeafActions ==
    { Action(type, ctx, << >>) :
        type \in {"GRANT_XP", "START_EVENT"}, ctx \in {"SOURCE", "ALL"} }
ChildLists ==
    { << >> } \cup { << a >> : a \in LeafActions }
        \cup { << Action("START_EVENT", "SOURCE", << >>), b >> :
                  b \in LeafActions }
ParentActions ==
    { Action(type, ctx, children) :
        type \in {"DELAY", "SPAWN"}, ctx \in {"ENEMIES", "ALL"},
        children \in ChildLists }
GrandParentActions ==
    { Action(type, ctx, << p >>) :
        type \in {"DELAY", "SPAWN"}, ctx \in {"ENEMIES", "ALL"},
        p \in { q \in ParentActions : Len(q.actions) = 1 } }
ActionLists ==
    UNION { [1..n -> LeafActions \cup ParentActions] : n \in 0..MaxActions }
        \cup { << g >> : g \in GrandParentActions }

\* ---- actions ------------------------------------------------------------

\* The list is validated.
ValidateActionsStep ==
    /\ sdm.result = "none"
    /\ sdm' = [sdm EXCEPT !.result =
                  IF ValidateActions(sdm.actions, sdm.autoContext)
                  THEN "valid" ELSE "rejected"]
    /\ UNCHANGED << notLib, pkt, store, server >>

InitActions ==
    /\ \E actions \in ActionLists, autoContext \in BOOLEAN :
           sdm = [actions |-> actions, autoContext |-> autoContext,
                  result |-> "none"]
    /\ conn = << >>
    /\ net = << >>
    /\ handed = << >>
    /\ sentFrames = << >>
    /\ NoSending
    /\ NoCache
    /\ NoDatabase
    /\ NoTimer
    /\ NoPacket
    /\ NoDataStore
    /\ NoTcpServer

NextActions == ValidateActionsStep

SpecActions == InitActions /\ [][NextActions]_vars

\* ------------------------------------------------------------------------
\* DataStore: the search paths (SpecDataStore)
\* ------------------------------------------------------------------------

\* The store record holds
\*   holds       the directories that hold a copy of the file read
\*   searchPath  the search path of PhysFS, searched from first to last
\*   writeDir    the write directory of PhysFS, "" for none
\*   paths       the list AddSearchPaths was given
\*   result      what AddSearchPaths returned, "true" or "false", and "none"
\*               before the call
\*   extra       the paths AddSearchPath was given afterwards
\*   read        the directory the read of the file since the last mount
\*               resolved to, "none" before that read and "" when no
\*               directory has the file
\* A directory of Directories exists; "missing" does not, and "readonly"
\* exists but cannot be the write directory.
MaxPaths == 2
Directories == {"A", "B", "readonly"}
PathNames == Directories \cup {"missing"}

\* PHYSFS_mount(path, "/", append): zero when the directory does not
\* exist; a directory already in the search path stays where it is.
PHYSFS_mount(searchPath, path, append) ==
    IF path \notin Directories THEN [ok |-> FALSE, searchPath |-> searchPath]
    ELSE IF \E i \in 1..Len(searchPath) : searchPath[i] = path
    THEN [ok |-> TRUE, searchPath |-> searchPath]
    ELSE [ok |-> TRUE,
          searchPath |-> IF append THEN Append(searchPath, path)
                         ELSE << path >> \o searchPath]

\* An AddSearchPath that always appends to the search path.
AddSearchPathAppends(s, path, append) ==
    LET m == PHYSFS_mount(s.searchPath, path, TRUE)
    IN [ok |-> m.ok, store |-> [s EXCEPT !.searchPath = m.searchPath]]

\* DataStore::AddSearchPath.
AddSearchPath(s, path, append) ==
    LET m == PHYSFS_mount(s.searchPath, path, append)
    IN [ok |-> m.ok, store |-> [s EXCEPT !.searchPath = m.searchPath]]

\* The loop of AddSearchPaths: AddSearchPath(path) for each path, append
\* left at its default, until one fails.
RECURSIVE MountAll(_, _)
MountAll(s, paths) ==
    IF paths = << >> THEN [ok |-> TRUE, store |-> s]
    ELSE LET r == AddSearchPath(s, Head(paths), FALSE)
         IN IF ~r.ok THEN r ELSE MountAll(r.store, Tail(paths))

\* DataStore::AddSearchPaths.
AddSearchPaths(s, paths) ==
    IF paths = << >> THEN [s EXCEPT !.paths = paths, !.result = "false"]
    ELSE LET r == MountAll(s, paths)
             lastPath == paths[Len(paths)]
         IN IF ~r.ok
            THEN [r.store EXCEPT !.paths = paths, !.result = "false"]
            ELSE IF lastPath = "readonly"
            THEN [r.store EXCEPT !.paths = paths, !.result = "false"]
            ELSE [r.store EXCEPT !.paths = paths, !.result = "true",
                                 !.writeDir = lastPath]

\* PHYSFS_openRead through DataStore::ReadFile: the first directory of the
\* search path that holds the file.
ResolveRead(s) ==
    LET found == { i \in 1..Len(s.searchPath) : s.searchPath[i] \in s.holds }
    IN IF found = {} THEN ""
       ELSE s.searchPath[CHOOSE i \in found : \A j \in found : i <= j]

NewDataStore(holds) ==
    [holds |-> holds, searchPath |-> << >>, writeDir |-> "",
     paths |-> << >>, result |-> "none", extra |-> << >>, read |-> "none"]

PathLists == UNION { [1..n -> PathNames] : n \in 0..MaxPaths }

\* ---- actions ------------------------------------------------------------

\* The server mounts the directories of its configuration.
AddSearchPathsStep ==
    /\ store.result = "none"
    /\ \E paths \in PathLists :
           store' = [AddSearchPaths(store, paths) EXCEPT !.read = "none"]
    /\ UNCHANGED << notLib, pkt, sdm, server >>

\* A further directory is mounted.
AddSearchPathStep ==
    /\ store.result # "none"
    /\ store.extra = << >>
    /\ \E path \in PathNames, append \in BOOLEAN :
           store' = [AddSearchPath(store, path, append).store
                         EXCEPT !.extra = Append(@, path), !.read = "none"]
    /\ UNCHANGED << notLib, pkt, sdm, server >>

\* The file is read.
ReadFileStep ==
    /\ store' = [store EXCEPT !.read = ResolveRead(store)]
    /\ UNCHANGED << notLib, pkt, sdm, server >>

InitDataStore ==
    /\ \E holds \in SUBSET Directories : store = NewDataStore(holds)
    /\ conn = << >>
    /\ net = << >>
    /\ handed = << >>
    /\ sentFrames = << >>
    /\ NoSending
    /\ NoCache
    /\ NoDatabase
    /\ NoTimer
    /\ NoPacket
    /\ NoServerData
    /\ NoTcpServer

NextDataStore ==
    \/ AddSearchPathsStep
    \/ AddSearchPathStep
    \/ ReadFileStep

SpecDataStore == InitDataStore /\ [][NextDataStore]_vars

\* ------------------------------------------------------------------------
\* TcpServer::Start (SpecServer)
\* ------------------------------------------------------------------------

\* The server record holds
\*   mDiffieHellman  the key pair of the server, by its number, 0 for
\*                   nullptr
\*   allocated       the number of key pairs allocated so far
\*   freed           the key pairs DH_free was called on
\*   lastSet         the argument of the last SetDiffieHellman and the key
\*                   pair the server had before it
\*   canGenerate     whether GenerateDiffieHellman yields a key pair
\*   mListenAddress  the address to listen on
\*   portFree        whether the port can be bound
\*   delayReady      the argument of Start
\*   runCode         what the Run of the server class returns
\*   pc              where Start is: "constructed", "keyed", "listening",
\*                   "serving", "ran", "returned" or "threw"; "destroyed"
\*                   after the destructor, "crashed" when the process died
\*                   of a key pair used after it was freed
\*   accepting       whether an async_accept is pending
\*   serviceRunning  whether the service thread is in mService.run()
\*   mConnections    the number of connections in the list
\*   ready           whether ServerReady was called
\*   critical        the critical messages logged
\*   errors          the error messages logged
\*   returnCode      what Start returned, Unset before it returns
MaxConnections == 2
MaxKeys == 2
ListenAddresses == {"", "ANY", "127.0.0.1", "bogus"}
\* The addresses asio::ip::address::from_string accepts.
ParsedAddresses == {"127.0.0.1"}
RunCodes == {0, 1}

NoSet == [k |-> Unset, previous |-> Unset]

NewTcpServer(listenAddress, canGenerate, portFree, delayReady, runCode) ==
    [mDiffieHellman |-> 0, allocated |-> 0, freed |-> {},
     lastSet |-> NoSet, canGenerate |-> canGenerate,
     mListenAddress |-> listenAddress, portFree |-> portFree,
     delayReady |-> delayReady, runCode |-> runCode, pc |-> "constructed",
     accepting |-> FALSE, serviceRunning |-> FALSE, mConnections |-> 0,
     ready |-> FALSE, critical |-> {}, errors |-> {},
     returnCode |-> Unset]

\* DH_free: nothing for nullptr.
DH_free(freed, pDiffieHellman) ==
    IF pDiffieHellman = 0 THEN freed ELSE freed \cup {pDiffieHellman}

\* TcpServer::SetDiffieHellman: when the server has a key pair, DH_free is
\* called on the argument; the argument is stored.
SetDiffieHellman(s, pDiffieHellman) ==
    [s EXCEPT !.freed = IF s.mDiffieHellman # 0
                        THEN DH_free(@, pDiffieHellman) ELSE @,
              !.mDiffieHellman = pDiffieHellman,
              !.lastSet = [k |-> pDiffieHellman,
                           previous |-> s.mDiffieHellman]]

\* TcpServer::~TcpServer: the key pair of the server is freed.
DestroyServer(s) ==
    [s EXCEPT !.freed = DH_free(@, s.mDiffieHellman), !.pc = "destroyed"]

\* The process dies.
Crashed(s) ==
    [s EXCEPT !.pc = "crashed", !.serviceRunning = FALSE,
              !.accepting = FALSE]

\* Start, the key pair: generated when none is set; a failure is logged
\* and Start goes on.
StartKeyPair(s) ==
    IF s.mDiffieHellman # 0 THEN [s EXCEPT !.pc = "keyed"]
    ELSE IF s.canGenerate
    THEN [s EXCEPT !.mDiffieHellman = s.allocated + 1,
                   !.allocated = @ + 1, !.pc = "keyed"]
    ELSE [s EXCEPT !.pc = "keyed",
                   !.critical = @ \cup {"Failed to generate Diffie-Hellman prime!"}]

\* Start, the acceptor: the endpoint, open, bind, listen, async_accept and
\* the service thread. An address that does not parse and a port that
\* cannot be bound make asio throw out of Start.
StartListen(s) ==
    IF /\ ~(s.mListenAddress = "" \/ ToLower(s.mListenAddress) = "any")
       /\ s.mListenAddress \notin ParsedAddresses
    THEN [s EXCEPT !.pc = "threw"]
    ELSE IF ~s.portFree THEN [s EXCEPT !.pc = "threw"]
    ELSE [s EXCEPT !.pc = "listening", !.accepting = TRUE,
                   !.serviceRunning = TRUE]

\* Start, the ready notification.
StartReady(s) ==
    IF s.delayReady THEN [s EXCEPT !.pc = "serving"]
    ELSE [s EXCEPT !.pc = "serving", !.ready = TRUE]

\* Start, the main loop: Run of the server class.
StartRun(s) == [s EXCEPT !.pc = "ran"]

\* Start, after the service thread is joined: the code of Run is returned.
StartReturn(s) == [s EXCEPT !.pc = "returned", !.returnCode = s.runCode]

\* TcpServer::AcceptHandler: the accept completed with errorCode, and
\* CreateConnection yields a connection or nullptr. Only after a
\* connection was added is async_accept called again.
AcceptHandler(s, errorCode, created) ==
    IF errorCode
    THEN [s EXCEPT !.accepting = FALSE,
                   !.errors = @ \cup {"async_accept error"}]
    ELSE IF s.mDiffieHellman = 0
    THEN [s EXCEPT !.accepting = FALSE,
                   !.critical = @ \cup {"Somehow you got this far without a DH key pair!"}]
    ELSE IF ~created
    THEN [s EXCEPT !.accepting = FALSE,
                   !.critical = @ \cup {"The connection could not be created"}]
    ELSE [s EXCEPT !.mConnections = @ + 1, !.accepting = TRUE]

\* ---- actions ------------------------------------------------------------

\* A prime of the configuration is loaded and set before Start:
\* LoadDiffieHellman allocates a key pair, or returns nullptr for a prime
\* that is not well formed.
SetDiffieHellmanStep ==
    /\ server.pc = "constructed"
    /\ server.allocated < MaxKeys
    /\ \/ server' = SetDiffieHellman(
                         [server EXCEPT !.allocated = @ + 1],
                         server.allocated + 1)
       \/ server' = SetDiffieHellman(server, 0)
    /\ UNCHANGED << notLib, pkt, sdm, store >>

\* The server is destroyed, before Start or after it. Freeing a key pair
\* a second time is undefined: the process goes on or dies.
DestructorStep ==
    /\ server.pc \in {"constructed", "returned", "threw"}
    /\ \/ server' = DestroyServer(server)
       \/ /\ server.mDiffieHellman \in server.freed
          /\ server' = Crashed(server)
    /\ UNCHANGED << notLib, pkt, sdm, store >>

StartKeyPairStep ==
    /\ server.pc = "constructed"
    /\ server' = StartKeyPair(server)
    /\ UNCHANGED << notLib, pkt, sdm, store >>

StartListenStep ==
    /\ server.pc = "keyed"
    /\ server' = StartListen(server)
    /\ UNCHANGED << notLib, pkt, sdm, store >>

StartReadyStep ==
    /\ server.pc = "listening"
    /\ server' = StartReady(server)
    /\ UNCHANGED << notLib, pkt, sdm, store >>

StartRunStep ==
    /\ server.pc = "serving"
    /\ server' = StartRun(server)
    /\ UNCHANGED << notLib, pkt, sdm, store >>

\* The service thread completes an accept. CreateConnection copies the
\* key pair of the server; copying one that was freed is undefined: the
\* handler goes on or the process dies.
AcceptStep ==
    /\ server.serviceRunning
    /\ server.accepting
    /\ server.mConnections < MaxConnections
    /\ \/ \E errorCode \in BOOLEAN, created \in BOOLEAN :
              server' = AcceptHandler(server, errorCode, created)
       \/ /\ server.mDiffieHellman \in server.freed
          /\ server' = Crashed(server)
    /\ UNCHANGED << notLib, pkt, sdm, store >>

\* A connection is removed from the list.
RemoveConnectionStep ==
    /\ server.mConnections > 0
    /\ server' = [server EXCEPT !.mConnections = @ - 1]
    /\ UNCHANGED << notLib, pkt, sdm, store >>

\* The service is stopped, or runs out of work: mService.run() returns.
ServiceStops ==
    /\ server.serviceRunning
    /\ server.pc \in {"serving", "ran"}
    /\ server' = [server EXCEPT !.serviceRunning = FALSE, !.accepting = FALSE]
    /\ UNCHANGED << notLib, pkt, sdm, store >>

\* mServiceThread.join() returns and Start returns.
StartReturnStep ==
    /\ server.pc = "ran"
    /\ ~server.serviceRunning
    /\ server' = StartReturn(server)
    /\ UNCHANGED << notLib, pkt, sdm, store >>

InitServer ==
    /\ \E listenAddress \in ListenAddresses, canGenerate \in BOOLEAN,
          portFree \in BOOLEAN, delayReady \in BOOLEAN, runCode \in RunCodes :
           server = NewTcpServer(listenAddress, canGenerate, portFree,
                                 delayReady, runCode)
    /\ conn = << >>
    /\ net = << >>
    /\ handed = << >>
    /\ sentFrames = << >>
    /\ NoSending
    /\ NoCache
    /\ NoDatabase
    /\ NoTimer
    /\ NoPacket
    /\ NoServerData
    /\ NoDataStore

NextServer ==
    \/ SetDiffieHellmanStep
    \/ DestructorStep
    \/ StartKeyPairStep
    \/ StartListenStep
    \/ StartReadyStep
    \/ StartRunStep
    \/ AcceptStep
    \/ RemoveConnectionStep
    \/ ServiceStops
    \/ StartReturnStep

SpecServer == InitServer /\ [][NextServer]_vars

\* ------------------------------------------------------------------------
\* DatabaseMariaDB: the connection of each thread (SpecConnections)
\* ------------------------------------------------------------------------

\* In this specification db holds
\*   mConnections  for each thread "absent" when the map has no entry for
\*                 it, "null" when the entry is a null pointer and "open"
\*                 when it is a connection to the server
\*   last          the last call: its name, its thread and what it returned
\* What the client library does in ConnectToDatabase is an input: which of
\* mysql_init, mysql_real_connect, mysql_set_character_set and
\* mysql_options fails, if any.
ConnectOutcomes == {"ok", "init", "connect", "charset", "options"}

NewDatabaseMariaDB ==
    [mConnections |-> [t \in Threads |-> "absent"],
     last |-> [op |-> "none", thread |-> "io", result |-> FALSE]]

\* DatabaseMariaDB::Close(MYSQL*&): the connection is closed and the
\* pointer set to null.
CloseConnection(connection) == "null"

\* DatabaseMariaDB::ConnectToDatabase on a reference to a connection: what
\* it returns and what the reference holds afterwards. The connection is
\* closed first; a failure leaves the reference null.
ConnectToDatabase(connection, outcome) ==
    CASE outcome = "init" ->
             [ok |-> FALSE, connection |-> CloseConnection(connection)]
      [] outcome = "connect" -> [ok |-> FALSE, connection |-> "null"]
      [] outcome = "charset" ->
             [ok |-> FALSE, connection |-> CloseConnection("open")]
      [] outcome = "options" ->
             [ok |-> FALSE, connection |-> CloseConnection("open")]
      [] OTHER -> [ok |-> TRUE, connection |-> "open"]

\* DatabaseMariaDB::GetConnection of thread t: the map afterwards; the
\* reference returned is to the entry of t.
GetConnection(m, t, autoConnect, outcome) ==
    IF m[t] # "absent" THEN m
    ELSE LET connection ==
                 IF autoConnect THEN ConnectToDatabase("null", outcome).connection
                 ELSE "null"
         IN [m EXCEPT ![t] = connection]

\* DatabaseMariaDB::Open and DatabaseMariaDB::Use:
\* ConnectToDatabase(GetConnection(false), name).
OpenDatabase(d, t, op, outcome) ==
    LET m == GetConnection(d.mConnections, t, FALSE, outcome)
        r == ConnectToDatabase(m[t], outcome)
    IN [mConnections |-> [m EXCEPT ![t] = r.connection],
        last |-> [op |-> op, thread |-> t, result |-> r.ok]]

\* DatabaseMariaDB::Prepare and DatabaseMariaDB::Execute, as far as the
\* connection goes: GetConnection(true); they fail on a null connection.
PrepareQuery(d, t, outcome) ==
    LET m == GetConnection(d.mConnections, t, TRUE, outcome)
    IN [mConnections |-> m,
        last |-> [op |-> "Prepare", thread |-> t, result |-> m[t] = "open"]]

\* DatabaseMariaDB::GetLastError: GetConnection(false).
GetLastError(d, t) ==
    LET m == GetConnection(d.mConnections, t, FALSE, "ok")
    IN [mConnections |-> m,
        last |-> [op |-> "GetLastError", thread |-> t, result |-> m[t] = "open"]]

\* DatabaseMariaDB::Close(): every connection is closed and the map
\* cleared.
CloseAll(d, t) ==
    [mConnections |-> [u \in Threads |-> "absent"],
     last |-> [op |-> "Close", thread |-> t, result |-> TRUE]]

\* DatabaseMariaDB::IsOpen.
IsOpen(m) == Cardinality({ t \in Threads : m[t] # "absent" }) > 0

\* ---- actions ------------------------------------------------------------

OpenStep(t) ==
    /\ \E op \in {"Open", "Use"}, outcome \in ConnectOutcomes :
           db' = OpenDatabase(db, t, op, outcome)
    /\ UNCHANGED << worker, mem, notDb >>

PrepareStep(t) ==
    /\ \E outcome \in ConnectOutcomes : db' = PrepareQuery(db, t, outcome)
    /\ UNCHANGED << worker, mem, notDb >>

GetLastErrorStep(t) ==
    /\ db' = GetLastError(db, t)
    /\ UNCHANGED << worker, mem, notDb >>

CloseStep(t) ==
    /\ db' = CloseAll(db, t)
    /\ UNCHANGED << worker, mem, notDb >>

\* A thread asks whether the database is open.
IsOpenStep(t) ==
    /\ db' = [db EXCEPT !.last = [op |-> "IsOpen", thread |-> t,
                                  result |-> IsOpen(db.mConnections)]]
    /\ UNCHANGED << worker, mem, notDb >>

InitConnections ==
    /\ db = NewDatabaseMariaDB
    /\ worker = << >>
    /\ mem = << >>
    /\ conn = << >>
    /\ net = << >>
    /\ handed = << >>
    /\ sentFrames = << >>
    /\ NoSending
    /\ NoCache
    /\ NoTimer
    /\ NoLibrary

NextConnections ==
    \E t \in Threads :
        \/ OpenStep(t)
        \/ PrepareStep(t)
        \/ GetLastErrorStep(t)
        \/ CloseStep(t)
        \/ IsOpenStep(t)

SpecConnections == InitConnections /\ [][NextConnections]_vars

\* ------------------------------------------------------------------------
\* DatabaseMariaDB::DeleteObjects and the identity cache (SpecDeletes)
\* ------------------------------------------------------------------------

\* The objects in memory next to the table: the object of a UID of the
\* table is the object of that number, registered under the UID; the last
\* object has no UUID.
Unsaved == MaxObjects

\* The object a change-set names by its UUID.
ObjectOf(uuid) == IF uuid = NullUUID THEN Unsaved ELSE uuid

\* DeleteObjects in memory: each object is unregistered before the DELETE
\* is executed; the loop returns at the first object without a UUID.
RECURSIVE UnregisterDeleted(_, _, _)
UnregisterDeleted(objs, cache, deletes) ==
    IF deletes = << >> \/ Head(deletes).uuid = NullUUID
    THEN [objects |-> objs, sCached |-> cache]
    ELSE LET self == ObjectOf(Head(deletes).uuid)
         IN UnregisterDeleted(
                [objs EXCEPT ![self].mDeleted = TRUE, ![self].holds = 0],
                Unregister(objs, cache, self), Tail(deletes))

\* Whether ProcessStandardChangeSet gets as far as DeleteObjects: the
\* connection is there, the inserts and the updates succeeded and there
\* are deletes.
ReachesDeleteObjects(t, changes, fault) ==
    /\ fault.kind \notin {"connect", "autocommit_off"}
    /\ Len(changes.deletes) > 0
    /\ RunOperations(t,
           StandardOperations([changes EXCEPT !.deletes = << >>]), 1,
           FailAt(fault)).ok

\* ---- actions ------------------------------------------------------------

\* A worker calls Database::ProcessChangeSet with a standard change-set;
\* the objects it deletes are in the identity cache.
DeleteChangeSetStep ==
    /\ worker.call = "none"
    /\ \E changes \in StandardChangeSets :
       \E fault \in FaultsOf(Len(StandardOperations(changes))) \
                       {Fault("load", 0)} :
           LET r == ProcessStandardChangeSet(db, changes, fault)
               u == IF ReachesDeleteObjects(db, changes, fault)
                    THEN UnregisterDeleted(objects, sCached, changes.deletes)
                    ELSE [objects |-> objects, sCached |-> sCached]
           IN /\ db' = r.table
              /\ objects' = u.objects
              /\ sCached' = u.sCached
              /\ worker' = [call |-> "standard", changes |-> changes,
                            operations |-> StandardOperations(changes),
                            fault |-> fault, before |-> db,
                            result |-> r.result]
    /\ UNCHANGED << mem, mCacheLock, calls, connVars, sendVars, timerVars,
                    libVars >>

\* The caller has its answer; the next change-set may come.
ChangeSetReturns ==
    /\ worker.call # "none"
    /\ worker' = NoCall
    /\ UNCHANGED << db, objects, sCached, mem, mCacheLock, calls, connVars,
                    sendVars, timerVars, libVars >>

\* The table holds any rows; every object is alive, and those of the UIDs
\* are registered.
InitDeletes ==
    /\ db \in Tables
    /\ mem = db
    /\ worker = NoCall
    /\ objects = [o \in Objs |->
                     IF o \in DbUIDs
                     THEN [NewObject EXCEPT !.mUUID = o, !.holds = o]
                     ELSE NewObject]
    /\ sCached = [u \in AllUUIDs |-> IF u \in DbUIDs THEN u ELSE 0]
    /\ mCacheLock = 0
    /\ calls = << >>
    /\ conn = << >>
    /\ net = << >>
    /\ handed = << >>
    /\ sentFrames = << >>
    /\ NoSending
    /\ NoTimer
    /\ NoLibrary

NextDeletes ==
    \/ DeleteChangeSetStep
    \/ ChangeSetReturns

SpecDeletes == InitDeletes /\ [][NextDeletes]_vars

\* ------------------------------------------------------------------------
\* The outgoing queue drains (SpecSendLive)
\* ------------------------------------------------------------------------

\* The largest packet of the application whose command does not fit into
\* an outer packet next to the header: its size and the four bytes of its
\* command header reach MAX_PACKET_SIZE - GetHeaderSize.
LargePacket(id) ==
    WriteU16Little(38) \o << id >>
        \o WriteBlank(MAX_PACKET_SIZE - GetHeaderSize - 4 - 3)

\* A worker calls SendPacket with a packet of any size.
QueueAnyPacketStep(t) ==
    /\ t \in Workers
    /\ thread[t].pc = "idle"
    /\ Len(appended) < MaxPackets
    /\ \E packet \in { AppPacket(Len(appended) + 1, FALSE),
                       AppPacket(Len(appended) + 1, TRUE),
                       LargePacket(Len(appended) + 1) } :
           /\ conn' = [conn EXCEPT ![1] = QueuePacket(@, packet)]
           /\ appended' = Append(appended, packet)
    /\ thread' = [thread EXCEPT ![t].pc = "flush"]
    /\ UNCHANGED << net, handed, notSend >>

InitSendLive ==
    /\ conn = [c \in Conns |->
                  IF c = 1 THEN ServerEncrypted
                  ELSE NewConnection("ROLE_CLIENT", FALSE,
                           ClientDiffieHellman(0))]
    /\ net = [c \in Conns |-> << >>]
    /\ handed = [c \in Conns |-> << >>]
    /\ sentFrames = << >>
    /\ NoSending
    /\ NoDatabase
    /\ NoTimer
    /\ NoCache
    /\ NoLibrary

\* The steps of the threads that flush and send, and the completions.
FlushSteps ==
    \E t \in Threads : GetCombinedPacketsStep(t) \/ SendStep(t)

NextSendLive ==
    \/ \E t \in Threads : QueueAnyPacketStep(t)
    \/ FlushSteps
    \/ SendCompletedStep

\* A thread that is in FlushOutgoing goes on, and every send in flight
\* completes.
SpecSendLive ==
    /\ InitSendLive
    /\ [][NextSendLive]_vars
    /\ WF_vars(FlushSteps)
    /\ WF_vars(SendCompletedStep)

\* ------------------------------------------------------------------------
\* TimerManager: events of one time (SpecSchedule)
\* ------------------------------------------------------------------------

\* The timer record holds
\*   clock              steady_clock::now()
\*   mEvents            the events in the container
\*   time, period, periodic   the fields of each event
\*   alive              the events allocated and not deleted
\*   used               the events registered so far
\*   fired              per event, the callbacks started so far
\*   cancelled          the events CancelEvent was called for
\*   cancel             the last CancelEvent: its event, the event it
\*                      erased from the container (0 for none) and
\*                      whether it deleted its event
\*   mProcessingEvents, now, periodicals   as in ProcessEvents
\*   pc, cur            where the timer thread is: "wait" in WaitForEvent,
\*                      "loop" in the loop of ProcessEvents with mEventLock
\*                      held, "run" in msg->Run() of the event cur with the
\*                      lock released
NoCancel == [e |-> 0, erased |-> 0, freed |-> FALSE]

NewSchedule ==
    [clock |-> 0, mEvents |-> {}, alive |-> {}, used |-> {},
     time |-> [e \in TimerEvents |-> 0],
     period |-> [e \in TimerEvents |-> 0],
     periodic |-> [e \in TimerEvents |-> FALSE],
     fired |-> [e \in TimerEvents |-> 0],
     cancelled |-> {}, cancel |-> NoCancel,
     mProcessingEvents |-> FALSE, now |-> 0, pc |-> "wait", cur |-> 0,
     periodicals |-> << >>]

\* TimerEventComp::operator(): lhs is before rhs.
TimerEventComp(t, lhs, rhs) == t.time[lhs] < t.time[rhs]

\* The keys the container takes for one: neither is before the other.
SameKey(t, a, b) == ~TimerEventComp(t, a, b) /\ ~TimerEventComp(t, b, a)

\* mEvents.insert: a set ordered by TimerEventComp holds one element of a
\* key, and an insert of a second one is dropped.
InsertEvent(t, e) ==
    IF \E d \in t.mEvents : SameKey(t, d, e) THEN t
    ELSE [t EXCEPT !.mEvents = @ \cup {e}]

\* mEvents.find: the element of the key of e, 0 for end().
FindEvent(t, e) ==
    IF \E d \in t.mEvents : SameKey(t, d, e)
    THEN CHOOSE d \in t.mEvents : SameKey(t, d, e)
    ELSE 0

\* *mEvents.begin(): the element no other is before.
BeginEvent(t) ==
    CHOOSE e \in t.mEvents : \A d \in t.mEvents : ~TimerEventComp(t, d, e)

\* TimerManager::RegisterEvent: a new event of that time is inserted.
RegisterEventInSet(t, e, time) ==
    InsertEvent([t EXCEPT !.alive = @ \cup {e}, !.used = @ \cup {e},
                          !.time[e] = time], e)

\* TimerManager::RegisterPeriodicEvent: the first time is one period from
\* now.
RegisterPeriodicEventInSet(t, e, period) ==
    InsertEvent([t EXCEPT !.alive = @ \cup {e}, !.used = @ \cup {e},
                          !.time[e] = t.clock + period,
                          !.period[e] = period, !.periodic[e] = TRUE], e)

\* TimerManager::CancelEvent: during ProcessEvents only mIsPeriodic is
\* cleared; otherwise what find returns is erased and pEvent is deleted.
CancelEventInSet(t, e) ==
    LET it == FindEvent(t, e)
        called == [t EXCEPT !.cancelled = @ \cup {e}]
    IN IF t.mProcessingEvents
       THEN [called EXCEPT !.periodic[e] = FALSE,
                           !.cancel = [e |-> e, erased |-> 0,
                                       freed |-> FALSE]]
       ELSE IF it # 0
       THEN [called EXCEPT !.mEvents = @ \ {it}, !.alive = @ \ {e},
                           !.cancel = [e |-> e, erased |-> it,
                                       freed |-> TRUE]]
       ELSE [called EXCEPT !.cancel = [e |-> e, erased |-> 0,
                                       freed |-> FALSE]]

\* ProcessEvents is entered: the clock is read once.
BeginProcessEvents(t) ==
    [t EXCEPT !.pc = "loop", !.now = t.clock, !.mProcessingEvents = TRUE]

\* The loop of ProcessEvents: the first event is due, leaves the container
\* and its callback starts, the lock released.
EraseAndRun(t) ==
    LET e == BeginEvent(t)
    IN [t EXCEPT !.mEvents = @ \ {e}, !.cur = e, !.pc = "run",
                 !.fired[e] = @ + 1]

\* The callback returned: a periodic event gets its next time and goes to
\* the local list, another event is deleted.
AfterCallback(t) ==
    LET e == t.cur
    IN IF t.periodic[e]
       THEN [t EXCEPT !.time[e] = @ + t.period[e],
                      !.periodicals = Append(@, e),
                      !.cur = 0, !.pc = "loop"]
       ELSE [t EXCEPT !.alive = @ \ {e}, !.cur = 0, !.pc = "loop"]

\* for (pEvent : periodicals) mEvents.insert(pEvent)
RECURSIVE InsertPeriodicals(_, _)
InsertPeriodicals(t, list) ==
    IF list = << >> THEN t
    ELSE InsertPeriodicals(InsertEvent(t, Head(list)), Tail(list))

\* The end of ProcessEvents, then WaitForEvent.
EndProcessEvents(t) ==
    [InsertPeriodicals(t, t.periodicals) EXCEPT
        !.periodicals = << >>, !.mProcessingEvents = FALSE,
        !.pc = "wait"]

\* The loop goes on: there is an event and the first is due.
FirstIsDue(t) ==
    /\ t.mEvents # {}
    /\ t.time[BeginEvent(t)] <= t.now

\* ---- actions ------------------------------------------------------------

ScheduleTick ==
    /\ timer.clock < MaxTime
    /\ timer' = [timer EXCEPT !.clock = @ + 1]
    /\ UNCHANGED notTimer

\* A thread registers a one-shot event; mEventLock is free.
ScheduleRegisterStep(e) ==
    /\ timer.pc \in {"wait", "run"}
    /\ e \notin timer.used
    /\ \E time \in 0..MaxTime :
           timer' = RegisterEventInSet(timer, e, time)
    /\ UNCHANGED notTimer

\* A thread registers a periodic event.
ScheduleRegisterPeriodicStep(e) ==
    /\ timer.pc \in {"wait", "run"}
    /\ e \notin timer.used
    /\ \E period \in Periods :
           timer' = RegisterPeriodicEventInSet(timer, e, period)
    /\ UNCHANGED notTimer

\* A thread cancels an event it registered and that was not deleted.
ScheduleCancelStep(e) ==
    /\ timer.pc \in {"wait", "run"}
    /\ e \in timer.alive
    /\ e \notin timer.cancelled
    /\ timer' = CancelEventInSet(timer, e)
    /\ UNCHANGED notTimer

\* The wait of the timer thread returns.
ScheduleWake ==
    /\ timer.pc = "wait"
    /\ timer' = BeginProcessEvents(timer)
    /\ UNCHANGED notTimer

ScheduleFire ==
    /\ timer.pc = "loop"
    /\ FirstIsDue(timer)
    /\ timer' = EraseAndRun(timer)
    /\ UNCHANGED notTimer

ScheduleRunReturns ==
    /\ timer.pc = "run"
    /\ timer' = AfterCallback(timer)
    /\ UNCHANGED notTimer

ScheduleWait ==
    /\ timer.pc = "loop"
    /\ ~FirstIsDue(timer)
    /\ timer' = EndProcessEvents(timer)
    /\ UNCHANGED notTimer

InitSchedule ==
    /\ timer = NewSchedule
    /\ conn = << >>
    /\ net = << >>
    /\ handed = << >>
    /\ sentFrames = << >>
    /\ NoSending
    /\ NoCache
    /\ NoDatabase
    /\ NoLibrary

NextSchedule ==
    \/ ScheduleTick
    \/ \E e \in TimerEvents : ScheduleRegisterStep(e)
    \/ \E e \in TimerEvents : ScheduleRegisterPeriodicStep(e)
    \/ \E e \in TimerEvents : ScheduleCancelStep(e)
    \/ ScheduleWake
    \/ ScheduleFire
    \/ ScheduleRunReturns
    \/ ScheduleWait

SpecSchedule == InitSchedule /\ [][NextSchedule]_vars

\* ------------------------------------------------------------------------
\* DefinitionManager::LoadBinaryData (SpecBinaryData)
\* ------------------------------------------------------------------------

\* The load of one binary file, held in sdm:
\*   entryCount, tableCount   the header of the file, two uint16_t
\*   tablesExpected           the argument of the caller
\*   dynamicCounts            the size_t bound of the first loop
\*   i                        the uint16_t counter of the first loop
\*   reads                    the dynamic sizes read so far, which are the
\*                            elements pushed to ois.dynamicSizes
\*   wrapped                  whether i went from 65535 to 0
\*   records                  the records loaded
\*   pc, result               "header", "sizes", "returned"; the value
\*                            returned
\* The file is long enough for its header. The product of the header is
\* computed as an int; the headers drawn keep it below 2^31.
U16 == 65536
MaxReads == 65537
EntryCounts == {0, 3, 256, 32768}
TableCounts == {0, 2, 256}
TablesExpected == {0, 2}

NewLoad(entryCount, tableCount, tablesExpected) ==
    [entryCount |-> entryCount, tableCount |-> tableCount,
     tablesExpected |-> tablesExpected, dynamicCounts |-> 0, i |-> 0,
     reads |-> 0, wrapped |-> FALSE, records |-> 0, pc |-> "header",
     result |-> "none"]

\* DefinitionManager::LoadBinaryDataHeader: the table count is compared
\* with the expected one unless that is 0.
LoadBinaryDataHeader(l) ==
    ~(l.tablesExpected > 0 /\ l.tablesExpected # l.tableCount)

\* LoadBinaryData up to its first loop.
BeginLoadBinaryData(l) ==
    IF ~LoadBinaryDataHeader(l)
    THEN [l EXCEPT !.pc = "returned", !.result = "false"]
    ELSE [l EXCEPT !.dynamicCounts = l.entryCount * l.tableCount,
                   !.i = 0, !.pc = "sizes"]

\* for (uint16_t i = 0; i < dynamicCounts; i++): the test, i converted to
\* size_t.
MoreDynamicSizes(l) == l.i < l.dynamicCounts

\* The body of the first loop and its i++ in 16 bits.
ReadDynamicSize(l) ==
    [l EXCEPT !.reads = @ + 1, !.i = (@ + 1) % U16,
              !.wrapped = @ \/ l.i + 1 = U16]

\* The second loop and the return: every entry loads, or the load of the
\* entry after the first failed ones fails.
LoadEntries(l, failed, loaded) ==
    IF failed
    THEN [l EXCEPT !.records = loaded, !.pc = "returned",
                   !.result = "false"]
    ELSE [l EXCEPT !.records = l.entryCount, !.pc = "returned",
                   !.result = "true"]

\* ---- actions ------------------------------------------------------------

LoadHeaderStep ==
    /\ sdm.pc = "header"
    /\ sdm' = BeginLoadBinaryData(sdm)
    /\ UNCHANGED << notLib, pkt, store, server >>

ReadDynamicSizeStep ==
    /\ sdm.pc = "sizes"
    /\ MoreDynamicSizes(sdm)
    /\ sdm.reads < MaxReads
    /\ sdm' = ReadDynamicSize(sdm)
    /\ UNCHANGED << notLib, pkt, store, server >>

LoadEntriesStep ==
    /\ sdm.pc = "sizes"
    /\ ~MoreDynamicSizes(sdm)
    /\ \/ sdm' = LoadEntries(sdm, FALSE, 0)
       \/ /\ sdm.entryCount > 0
          /\ \E loaded \in {0, sdm.entryCount - 1} :
                 sdm' = LoadEntries(sdm, TRUE, loaded)
    /\ UNCHANGED << notLib, pkt, store, server >>

InitBinaryData ==
    /\ \E entryCount \in EntryCounts, tableCount \in TableCounts,
          tablesExpected \in TablesExpected :
           sdm = NewLoad(entryCount, tableCount, tablesExpected)
    /\ conn = << >>
    /\ net = << >>
    /\ handed = << >>
    /\ sentFrames = << >>
    /\ NoSending
    /\ NoCache
    /\ NoDatabase
    /\ NoTimer
    /\ NoPacket
    /\ NoDataStore
    /\ NoTcpServer

NextBinaryData ==
    \/ LoadHeaderStep
    \/ ReadDynamicSizeStep
    \/ LoadEntriesStep

SpecBinaryData == InitBinaryData /\ [][NextBinaryData]_vars

\* ------------------------------------------------------------------------
\* Received outer packets (SpecConn)
\* ------------------------------------------------------------------------

\* The outer packets connection 1 has handled, by their index in sentFrames.
ParsedFrames == 1..Len(conn[1].parsed)

\* The messages the commands cmds stand for.
MsgsOf(cmds) ==
    [i \in 1..Len(cmds) |-> MsgPacket(cmds[i].code, cmds[i].payload)]

\* The body of d before its padding.
RealEnd(d) == Len(Body(d)) - (IF d.pad > 0 THEN d.pad ELSE 0)

\* d has, before its padding, a command whose commandSize is below 4.
ContainsShort(d) ==
    \E i \in 1..Len(d.cmds) :
        /\ d.cmds[i].declared < 4
        /\ Len(CommandBytes(SubSeq(d.cmds, 1, i))) <= RealEnd(d)

\* The commands of d that precede its first command with commandSize below 4.
BeforeShort(d) ==
    LET i == CHOOSE k \in 1..Len(d.cmds) :
                 /\ d.cmds[k].declared < 4
                 /\ \A j \in 1..(k - 1) : d.cmds[j].declared >= 4
    IN SubSeq(d.cmds, 1, i - 1)

IsPrefix(s, t) == Len(s) <= Len(t) /\ s = SubSeq(t, 1, Len(s))

\* C1 as stated: when an outer packet contains a command whose commandSize is
\* below 4, the connection fails and no command of that packet, whatever its
\* position, is enqueued.
C1_NoCommandOfFrameEnqueued ==
    \A k \in ParsedFrames :
        ContainsShort(sentFrames[k]) =>
            /\ conn[1].parsed[k].closed
            /\ conn[1].parsed[k].msgs = << >>

\* C1, amended: when an outer packet contains a command whose commandSize is
\* below 4, the connection fails and neither that command nor any command
\* after it is enqueued; the commands before it are enqueued, all of them
\* when a message queue is attached and the sizes of the header are
\* consistent.
C1_FailsAtShortCommand ==
    \A k \in ParsedFrames :
        LET d == sentFrames[k]
            p == conn[1].parsed[k]
        IN ContainsShort(d) =>
               /\ p.closed
               /\ IsPrefix(p.msgs, MsgsOf(BeforeShort(d)))
               /\ (conn[1].mMessageQueue /\ d.pad >= 0)
                      => p.msgs = MsgsOf(BeforeShort(d))

\* A packet whose second command has a commandSize below 4 was handled, and
\* the first command was enqueued.
C1_Witness ==
    \E k \in ParsedFrames :
        /\ ContainsShort(sentFrames[k])
        /\ Len(conn[1].parsed[k].msgs) = 1
        /\ conn[1].parsed[k].closed

\* C2: no command is enqueued whose header or payload bytes lie, in whole or
\* in part, within the final paddedSize - realSize bytes of the body.
C2_NoCommandInPadding ==
    \A k \in ParsedFrames :
        LET d == sentFrames[k]
            p == conn[1].parsed[k]
        IN d.pad >= 0 =>
               \A i \in 1..Len(p.ends) :
                   p.ends[i] <= GetHeaderSize + RealEnd(d)

\* C3: once a parse failure or a bound violation was raised while received
\* bytes were handled, the connection is not connected and has no packet
\* parser, and nothing is enqueued or sent afterwards.
C3_FailureClearsParser ==
    [][/\ conn'[1].failed =>
              /\ conn'[1].mStatus = "NOT_CONNECTED"
              /\ conn'[1].mPacketParser = "nullptr"
       /\ conn[1].failed =>
              /\ conn'[1].failed
              /\ conn'[1].queue = conn[1].queue
              /\ conn'[1].parsed = conn[1].parsed
              /\ handed' = handed]_vars

\* A parse failure was raised while bytes of the peer were still to be read.
C3_Witness ==
    /\ conn[1].failed
    /\ net[1] # << >>
    /\ conn[1].mStatus = "NOT_CONNECTED"

\* The ConnectionClosed messages among msgs.
RECURSIVE ClosedCount(_)
ClosedCount(msgs) ==
    IF Len(msgs) = 0 THEN 0
    ELSE (IF Head(msgs).type = "ConnectionClosed" THEN 1 ELSE 0)
             + ClosedCount(Tail(msgs))

\* C4: a connection with a message queue that was once connected enqueues
\* exactly one ConnectionClosed message: one once it is closed, never two.
C4_OneConnectionClosed ==
    (conn[1].mMessageQueue /\ conn[1].started) =>
        /\ ClosedCount(conn[1].queue) <= 1
        /\ conn[1].mStatus = "NOT_CONNECTED" => ClosedCount(conn[1].queue) = 1

\* d is well formed: every command declares its size, the filler is the
\* padding.
WellFormed(d) ==
    /\ \A i \in 1..Len(d.cmds) :
           d.cmds[i].declared = 4 + Len(d.cmds[i].payload)
    /\ d.pad = Len(d.filler)

\* C8: the commands of a well formed outer packet are enqueued one message
\* per command, in their order in the packet, each with its command code and
\* the commandSize - 4 bytes after its header.
C8_OneMessagePerCommand ==
    \A k \in ParsedFrames :
        (WellFormed(sentFrames[k]) /\ conn[1].mMessageQueue) =>
            /\ conn[1].parsed[k].msgs = MsgsOf(sentFrames[k].cmds)
            /\ \E pre \in 0..Len(conn[1].queue) :
                   /\ pre + Len(sentFrames[k].cmds) <= Len(conn[1].queue)
                   /\ SubSeq(conn[1].queue, pre + 1,
                          pre + Len(sentFrames[k].cmds))
                          = MsgsOf(sentFrames[k].cmds)

\* A well formed packet of two commands with padding was handled.
C8_Witness ==
    \E k \in ParsedFrames :
        /\ WellFormed(sentFrames[k])
        /\ Len(sentFrames[k].cmds) = 2
        /\ sentFrames[k].pad > 0
        /\ Len(conn[1].parsed[k].msgs) = 2
        /\ conn[1].parsed[k].msgs[1] # conn[1].parsed[k].msgs[2]

\* ------------------------------------------------------------------------
\* The handshake (SpecHandshake)
\* ------------------------------------------------------------------------

\* The Encrypted messages among msgs.
RECURSIVE EncryptedCount(_)
EncryptedCount(msgs) ==
    IF Len(msgs) = 0 THEN 0
    ELSE (IF Head(msgs).type = "Encrypted" THEN 1 ELSE 0)
             + EncryptedCount(Tail(msgs))

\* Nothing is left to happen: both ends were connected, every byte that can
\* be read was read and every completion handler has run.
Quiescent ==
    \A c \in Conns :
        /\ conn[c].started
        /\ conn[c].reactor = << >>
        /\ conn[c].requested > 0 => (net[c] = << >> /\ conn[Peer(c)].open)

\* C5: in a handshake of well formed messages both ends become encrypted and
\* each enqueues Encrypted exactly once: never twice, and once when the
\* exchange has ended.
C5_BothEncryptedOnce ==
    /\ \A c \in Conns : EncryptedCount(conn[c].queue) <= 1
    /\ Quiescent =>
           \A c \in Conns :
               /\ conn[c].mStatus = "ENCRYPTED"
               /\ EncryptedCount(conn[c].queue) = 1

\* The exchange ended with both ends encrypted under the same key.
C5_Witness ==
    /\ Quiescent
    /\ \A c \in Conns :
           /\ conn[c].mStatus = "ENCRYPTED"
           /\ EncryptedCount(conn[c].queue) = 1
    /\ conn[1].mEncryptionKey = conn[2].mEncryptionKey
    /\ conn[1].mEncryptionKey # 0

\* ------------------------------------------------------------------------
\* The send path (SpecSend)
\* ------------------------------------------------------------------------

\* The packets of the application in the outer packet `outer`, as its
\* receiver reads them: the commands of an encrypted packet, each the command
\* code and the payload, or the packet itself before encryption.
PacketsIn(outer) ==
    IF conn[1].mStatus = "ENCRYPTED"
    THEN LET msgs == ParsePacketSized(
                         DecryptPacket(conn[1].mEncryptionKey, outer),
                         ReadU32Big(outer, 0), ReadU32Big(outer, 4), TRUE).msgs
         IN [i \in 1..Len(msgs) |->
                WriteU16Little(msgs[i].code) \o msgs[i].data]
    ELSE << outer >>

RECURSIVE HandedPackets(_)
HandedPackets(outers) ==
    IF Len(outers) = 0 THEN << >>
    ELSE PacketsIn(Head(outers)) \o HandedPackets(Tail(outers))

\* C6: the commands handed to the socket are packets that were appended to
\* the outgoing queue, in the order of their appending and each once; on an
\* encrypted connection they are the packets appended first, none left out.
C6_OrderPreserved ==
    LET out == HandedPackets(handed[1])
    IN /\ \A i \in 1..Len(out) :
              /\ out[i][3] \in 1..Len(appended)
              /\ out[i] = appended[out[i][3]]
       /\ \A i, j \in 1..Len(out) : i < j => out[i][3] < out[j][3]
       /\ conn[1].mStatus = "ENCRYPTED" => out = SubSeq(appended, 1, Len(out))

\* Every packet was handed to the socket, in two outer packets.
C6_Witness ==
    /\ Len(appended) = MaxPackets
    /\ Len(HandedPackets(handed[1])) = MaxPackets
    /\ Len(handed[1]) = 2

\* The outer packets in flight: returned by GetCombinedPackets to a thread
\* that has not started the send, or sent and not completed.
InFlight ==
    Cardinality({t \in Threads : thread[t].pc = "send"})
        + Cardinality({i \in 1..Len(conn[1].reactor) :
                          conn[1].reactor[i].op = "write"})

\* C7: while mSendingPacket is set no step removes a packet from the outgoing
\* queue, and at most one outer packet is in flight.
C7_OneInFlight ==
    [][/\ conn[1].mSendingPacket =>
              IsPrefix(conn[1].mOutgoingPackets, conn'[1].mOutgoingPackets)
       /\ InFlight' <= 1]_vars

\* GetCombinedPackets returned nothing to a thread although packets wait,
\* because a send is in flight.
C7_Witness ==
    /\ \E t \in Threads : thread[t].suppressed /\ thread[t].pc = "idle"
    /\ conn[1].mSendingPacket
    /\ conn[1].mOutgoingPackets # << >>
    /\ InFlight = 1

\* ------------------------------------------------------------------------
\* The identity cache (SpecCache)
\* ------------------------------------------------------------------------

\* C9: at most one live object holds a UUID, and the cache maps the UUID to
\* that object: a Register of the UUID by another object fails and leaves the
\* entry as it is.
C9_AtMostOneLivePerUUID ==
    \A a \in Objs :
        (objects[a].live /\ objects[a].holds # 0) =>
            /\ \A b \in Objs \ {a} :
                   objects[b].live => objects[b].holds # objects[a].holds
            /\ GetObjectByUUID(objects, sCached, objects[a].holds) = a

\* Two live objects hold the same UUID, each through a Register that
\* returned true.
C9_TwoLiveHolders ==
    \E a, b \in Objs :
        /\ a # b
        /\ objects[a].live /\ objects[b].live
        /\ objects[a].holds # 0
        /\ objects[a].holds = objects[b].holds

\* ------------------------------------------------------------------------
\* Concurrent Register calls (SpecRace)
\* ------------------------------------------------------------------------

\* C10: when two objects, neither unregistered, call Register for the same
\* UUID at the same time, exactly one call returns true, and a
\* GetObjectByUUID made after both returned yields the object of that call.
C10_ExactlyOneRegisters ==
    (BothReturned /\ \A t \in RaceThreads : ~objects[calls[t].self].mDeleted)
        => \E t \in RaceThreads :
               /\ calls[t].result
               /\ \A other \in RaceThreads \ {t} : ~calls[other].result
               /\ (calls[Reader].pc = "done" /\ calls[Reader].after)
                      => calls[Reader].seen = calls[t].self

\* Both calls returned, the second thread's true and the first's false; the
\* first object gave up the UUID it was registered with, and the lookup made
\* afterwards found the second object.
C10_Witness ==
    /\ BothReturned
    /\ calls[2].result
    /\ ~calls[1].result
    /\ calls[Reader].pc = "done"
    /\ calls[Reader].after
    /\ calls[Reader].seen = calls[2].self
    /\ objects[1].mUUID = RaceUUID
    /\ \A u \in AllUUIDs : sCached[u] # 1

\* ------------------------------------------------------------------------
\* Change-sets in one session (SpecChangeSet)
\* ------------------------------------------------------------------------

\* The table with every operation of the call applied, and whether one of
\* the operations of the call failed.
AllApplied(w) == RunOperations(w.before, w.operations, 1, 0)
OperationFailed(w) ==
    /\ w.fault.kind \notin {"connect", "autocommit_off"}
    /\ ~RunOperations(w.before, w.operations, 1, FailAt(w.fault)).ok

\* The table the session sees when operation k starts, and whether the call
\* gets as far as operation k.
TableAt(w, k) ==
    RunOperations(w.before, SubSeq(w.operations, 1, k - 1), 1, 0).table
Reached(w, k) ==
    /\ w.fault.kind \notin {"connect", "autocommit_off"}
    /\ RunOperations(w.before, SubSeq(w.operations, 1, k - 1), 1,
           FailAt(w.fault)).ok

Mismatch(update, t) ==
    /\ RowOf(t, update.record.uuid) # NoRow
    /\ \E c \in Cols(update.expected) \cap Cols(update.changes) :
           RowOf(t, update.record.uuid)[c] # update.expected[c]

C13_EveryExpectedColumnChecked ==
    worker.call = "operational" =>
        \A k \in 1..Len(worker.operations) :
            ( /\ worker.operations[k].type = "DBOP_EXPLICIT"
              /\ Reached(worker, k)
              /\ RowOf(TableAt(worker, k),
                     worker.operations[k].record.uuid) # NoRow
              /\ \E c \in Cols(worker.operations[k].expected) :
                     RowOf(TableAt(worker, k),
                         worker.operations[k].record.uuid)[c]
                         # worker.operations[k].expected[c] )
            => /\ ~worker.result
               /\ db = worker.before

\* An explicit update that succeeded although the stored Mp was not the
\* expected Mp.
C13_UpdatedDespiteMismatch ==
    /\ worker.call = "operational"
    /\ Len(worker.operations) = 1
    /\ worker.operations[1].type = "DBOP_EXPLICIT"
    /\ worker.operations[1].expected["Mp"] # Unset
    /\ worker.before[1]["Mp"] # worker.operations[1].expected["Mp"]
    /\ worker.before[1] # NoRow
    /\ worker.result
    /\ db # worker.before

\* ------------------------------------------------------------------------
\* Two workers, one row (SpecContention)
\* ------------------------------------------------------------------------

\* Both workers process the explicit change (expected Hp = 100, set Hp = 80)
\* and the stored Hp was 100.
SameExplicitChange ==
    \A w \in DbWorkers :
        /\ worker[w].ops = << ExplicitChange >>
        /\ worker[w].stored["Hp"] = 100

\* C14: two workers process the same explicit change (expected Hp = 100, set
\* Hp = 80) of one object whose stored Hp is 100; once both calls are over,
\* one of them committed with 1 affected row and the other rolled back with
\* 0 affected rows, whatever the interleaving.
C14_ExactlyOneCommits ==
    (SameExplicitChange /\ \A w \in DbWorkers : worker[w].pc = "returned")
    => \E w \in DbWorkers :
           /\ worker[w].outcome = "commit"
           /\ worker[w].rows = 1
           /\ worker[OtherWorker(w)].outcome = "rollback"
           /\ worker[OtherWorker(w)].rows = 0

\* Both calls are over, the second worker having executed its UPDATE after
\* the first one committed.
C14_Witness ==
    /\ SameExplicitChange
    /\ \A w \in DbWorkers : worker[w].pc = "returned"
    /\ worker[1].outcome = "rollback"
    /\ worker[2].outcome = "commit"
    /\ db[ContendedUID]["Hp"] = 80

\* The worker w lost: its explicit update expected the value that was
\* stored, the other worker committed first and the update affected no row.
LostAgainst(w) ==
    /\ worker[w].pc = "returned"
    /\ worker[w].outcome = "rollback"
    /\ worker[w].rows = 0
    /\ worker[OtherWorker(w)].outcome = "commit"
    /\ \A k \in 1..Len(worker[w].ops) :
           worker[w].ops[k].type = "DBOP_EXPLICIT" =>
               worker[w].ops[k].expected["Hp"] = worker[w].stored["Hp"]

\* C15: when the call of a worker has failed because its explicit update
\* lost against the other worker, the object in memory has been re-loaded:
\* it holds the row the winner stored.
C15_LoserReloaded ==
    \A w \in DbWorkers :
        LostAgainst(w) => mem[ContendedUID] = db[ContendedUID]

\* The loser's call has returned and the object in memory still holds the
\* row from before the winner's commit.
C15_LoserStale ==
    \E w \in DbWorkers :
        /\ LostAgainst(w)
        /\ mem[ContendedUID] = worker[w].stored
        /\ db[ContendedUID] # worker[w].stored

\* ------------------------------------------------------------------------
\* Schema verification (SpecSchema)
\* ------------------------------------------------------------------------

\* C17: when the table of the type exists with a column of another type
\* than the registered one and automatic schema update is on, the rows the
\* table held are still stored in the database, in some table, once
\* VerifyAndSetupSchema has returned.
C17_RowsArchived ==
    ( /\ worker.call = "verified"
      /\ worker.autoSchemaUpdate
      /\ worker.before[ObjName].exists
      /\ MismatchedColumns(worker.before[ObjName]) # {} )
    => StoredRows(worker.before) \subseteq StoredRows(db)

\* A table with rows and a mismatched column was replaced by an empty one.
C17_RowsDropped ==
    /\ worker.call = "verified"
    /\ worker.result
    /\ worker.autoSchemaUpdate
    /\ MismatchedColumns(worker.before[ObjName]) # {}
    /\ worker.before[ObjName].rows = {1, 2}
    /\ db[ObjName].exists
    /\ StoredRows(db) = {3}

\* ------------------------------------------------------------------------
\* Migrations (SpecSetup)
\* ------------------------------------------------------------------------

\* The migration files of the listing that were not recorded before Setup.
Unrecorded(w) ==
    { w.listing.files[i] : i \in { j \in 1..Len(w.listing.files) :
        /\ IsMigrationFile(w.listing.files[j])
        /\ MigrationOf(w.listing.files[j])
               \notin w.before.migrations.rows } }

\* C16: Setup runs migration scripts that were not recorded yet, in the
\* lexicographic order of their file names; it records exactly the
\* migrations that ran and succeeded; when a migration fails Setup fails,
\* that migration is not recorded and no later migration runs; and a Setup
\* that succeeds has run every migration that was not recorded.
C16_MigrationsInOrder ==
    (worker.call = "setup" /\ worker.listing.kind = "files") =>
        LET ran == worker.ran
        IN /\ \A i \in 1..Len(ran), j \in 1..Len(ran) :
                  i < j => LexLess(ran[i].file, ran[j].file)
           /\ \A i \in 1..Len(ran) : ran[i].file \in Unrecorded(worker)
           /\ \A i \in 1..Len(ran) : ~ran[i].ok =>
                  /\ i = Len(ran)
                  /\ ~worker.result
                  /\ MigrationOf(ran[i].file) \notin db.migrations.rows
           /\ db.migrations.rows \ worker.before.migrations.rows
                  \subseteq { MigrationOf(ran[i].file) :
                                i \in { j \in 1..Len(ran) : ran[j].ok } }
           /\ worker.before.migrations.rows \subseteq db.migrations.rows
           /\ \A f \in Unrecorded(worker) :
                  ( \E i \in 1..Len(ran) : ran[i].file = f ) \/
                  ( /\ ~worker.result
                    /\ \A i \in 1..Len(ran) : LexLess(ran[i].file, f) )
           /\ worker.result =>
                  { ran[i].file : i \in 1..Len(ran) } = Unrecorded(worker)

\* A listing that was not in order: the first migration by name ran and was
\* recorded, the second failed and the third never ran.
C16_Witness ==
    /\ worker.call = "setup"
    /\ worker.listing.kind = "files"
    /\ Len(worker.listing.files) = 3
    /\ LexLess(worker.listing.files[3], worker.listing.files[1])
    /\ Cardinality(Unrecorded(worker)) = 3
    /\ Len(worker.ran) = 2
    /\ worker.ran[1].ok
    /\ ~worker.ran[2].ok
    /\ MigrationOf(worker.ran[1].file) \in db.migrations.rows
    /\ ~worker.result

\* ------------------------------------------------------------------------
\* Timer events (SpecTimer)
\* ------------------------------------------------------------------------

\* C18: once CancelEvent(e) has returned for a registered event e whose own
\* callback was not executing when it was called, the callback of e is not
\* invoked again, also when the call was made while the callback of another
\* event was running.
C18_CancelledNeverRuns ==
    \A e \in TimerEvents :
        (timer.cancelled[e].done /\ ~timer.cancelled[e].own)
        => timer.runs[e] = timer.cancelled[e].runs

\* An event cancelled while the callback of another event was running has
\* run afterwards.
C18_RanAfterCancel ==
    \E e \in TimerEvents :
        /\ timer.cancelled[e].done
        /\ ~timer.cancelled[e].own
        /\ timer.cancelled[e].other
        /\ timer.runs[e] > timer.cancelled[e].runs

\* C19: when CancelEvent(e) is called for a periodic event e while the
\* callback of e executes, that execution is left to finish, and e is not
\* re-armed: it never returns to the set of events and its callback is not
\* invoked again.
C19_CancelDuringFiring ==
    \A e \in TimerEvents :
        (timer.cancelled[e].done /\ timer.cancelled[e].own
            /\ timer.cancelled[e].periodic)
        => /\ timer.runs[e] = timer.cancelled[e].runs
           /\ e \notin timer.mEvents
           /\ \A i \in 1..Len(timer.periodicals) : timer.periodicals[i] # e

\* A periodic event cancelled during its second firing: the firing is over,
\* the event was deleted and the thread is back in WaitForEvent.
C19_Witness ==
    \E e \in TimerEvents :
        /\ timer.cancelled[e].done
        /\ timer.cancelled[e].own
        /\ timer.cancelled[e].periodic
        /\ timer.cancelled[e].runs = 2
        /\ timer.executing[e] = 0
        /\ e \notin timer.alive
        /\ timer.pc = "wait"

\* C20: at any time at most one execution of the callback of an event is in
\* progress, and at most one callback in all, every callback being run by
\* the timer thread inside ProcessEvents.
C20_NoOverlap ==
    /\ \A e \in TimerEvents : timer.executing[e] <= 1
    /\ \A e \in TimerEvents :
           timer.executing[e] = 1 => (timer.pc = "run" /\ timer.cur = e)

\* A periodic event is in its third execution.
C20_Witness ==
    \E e \in TimerEvents :
        /\ timer.periodic[e]
        /\ timer.runs[e] = 3
        /\ timer.executing[e] = 1

\* ------------------------------------------------------------------------
\* The timer thread (SpecTimerThread, SpecTimerStop)
\* ------------------------------------------------------------------------

C29_JoinReturns ==
    (timer.dtor = "join") ~> (timer.pc = "exited" /\ timer.dtor = "done")

\* The destructor is in join, its notification is over, and the timer
\* thread blocks on the condition with no event in the set, hence without
\* a deadline.
C29_ThreadNeverWoken ==
    /\ timer.dtor = "join"
    /\ ~timer.mRunning
    /\ timer.pc = "wait"
    /\ timer.mEvents = {}

\* ------------------------------------------------------------------------
\* The packet cursor (SpecPacket)
\* ------------------------------------------------------------------------

\* C22: after every sequence of packet operations the cursor is within the
\* valid bytes and these within the buffer, 0 <= position <= size <=
\* MAX_PACKET_SIZE, and an operation that threw left the position as it
\* was.
C22_CursorWithinSize ==
    /\ 0 <= pkt.mPosition
    /\ pkt.mPosition <= pkt.mSize
    /\ pkt.mSize <= MAX_PACKET_SIZE
    /\ pkt.threw => pkt.mPosition = pkt.before

\* Seek(pos) with pos past the size and not past MAX_PACKET_SIZE did not
\* throw, and the cursor is past the valid bytes.
C22_SeekPastSize ==
    /\ pkt.op = "Seek"
    /\ ~pkt.threw
    /\ pkt.arg > pkt.mSize
    /\ pkt.mPosition = pkt.arg
    /\ pkt.mPosition > pkt.mSize

C24_GetZoneDataDeterministic ==
    \A a, b \in sdm.returned :
        (a.input = b.input /\ a.input.applyPartials) => a.zone = b.zone

\* Two calls one after the other with the same input returned definitions
\* whose spawn 1 differs: the second holds the drop sets of the partial
\* twice.
C24_SecondCallDiffers ==
    \E a, b \in sdm.returned :
        /\ a.call = 1
        /\ b.call = 2
        /\ a.input = b.input
        /\ a.input.applyPartials
        /\ a.zone # NoZone
        /\ b.zone # NoZone
        /\ a.zone.spawns[1].dropSetIDs = << 10, 20 >>
        /\ b.zone.spawns[1].dropSetIDs = << 10, 20, 20 >>

\* ------------------------------------------------------------------------
\* Scripts (SpecScripts)
\* ------------------------------------------------------------------------

\* A script of the name and of the type was loaded before the last call.
LoadedSameType(name, type) ==
    \/ sdm.before.mScripts[name] = ToLower(type)
    \/ sdm.before.mAIScripts[name] = ToLower(type)

\* The map LoadScript keeps the scripts of a type in: the AI scripts in one,
\* the scripts of every other type in the other.
BucketBefore(type) ==
    IF ToLower(type) = "ai" THEN sdm.before.mAIScripts
    ELSE sdm.before.mScripts

\* C25 as stated: loading a well-formed script fails exactly when a script
\* of the same name and of the same type is loaded, so that a name used
\* only by a script of another type does not make it fail.
C25_CollisionWithinType ==
    WellFormedScript(sdm.script)
    => (sdm.result <=> ~LoadedSameType(sdm.script.Name, sdm.script.Type))

\* C25 amended: the scripts are kept by name in two buckets, the AI scripts
\* and the scripts of all other types; loading a well-formed script fails
\* exactly when its name is taken in its bucket, a failed load changes
\* neither bucket, and a loaded script is in its bucket and not in the
\* other.
C25_CollisionWithinBucket ==
    /\ WellFormedScript(sdm.script)
           => (sdm.result <=> BucketBefore(sdm.script.Type)
                                  [sdm.script.Name] = "")
    /\ ~sdm.result => /\ sdm.mScripts = sdm.before.mScripts
                      /\ sdm.mAIScripts = sdm.before.mAIScripts
    /\ sdm.result =>
           IF ToLower(sdm.script.Type) = "ai"
           THEN /\ sdm.mAIScripts[sdm.script.Name] = "ai"
                /\ sdm.mScripts = sdm.before.mScripts
           ELSE /\ sdm.mScripts[sdm.script.Name] = ToLower(sdm.script.Type)
                /\ sdm.mAIScripts = sdm.before.mAIScripts

\* An AI script was loaded under a name a script of another type holds.
C25_Witness ==
    /\ sdm.result
    /\ WellFormedScript(sdm.script)
    /\ ToLower(sdm.script.Type) = "ai"
    /\ sdm.before.mScripts[sdm.script.Name] = "eventcondition"
    /\ sdm.mAIScripts[sdm.script.Name] = "ai"

\* A well-formed script failed to load under a name that only a script of
\* another type, not an AI script, holds.
C25_OtherTypeCollides ==
    /\ ~sdm.result
    /\ WellFormedScript(sdm.script)
    /\ sdm.script.Type = "actioncustom"
    /\ sdm.before.mScripts[sdm.script.Name] = "eventcondition"
    /\ sdm.before.mAIScripts[sdm.script.Name] = ""

\* ------------------------------------------------------------------------
\* Action validation (SpecActions)
\* ------------------------------------------------------------------------

\* The list holds, directly or in the child lists of Delay and Spawn
\* actions, an action of a player-required type in a non-player context:
\* the list is of an automatic context and the action and every Delay or
\* Spawn around it have a source context without a player.
RECURSIVE PlayerRequiredWithoutPlayer(_, _)
PlayerRequiredWithoutPlayer(actions, autoContext) ==
    \E i \in 1..Len(actions) :
        /\ autoContext
        /\ actions[i].sourceContext \in NonPlayerContexts
        /\ \/ actions[i].type \in PlayerRequiredTypes
           \/ /\ actions[i].type \in {"DELAY", "SPAWN"}
              /\ PlayerRequiredWithoutPlayer(actions[i].actions, TRUE)

ReadAfterAddSearchPaths ==
    /\ store.result = "true"
    /\ store.extra = << >>
    /\ store.read # "none"

\* The places of the list whose directory holds the file, a directory
\* given twice counting where it is first.
HoldingPlaces ==
    { i \in 1..Len(store.paths) :
        /\ store.paths[i] \in store.holds
        /\ \A j \in 1..(i - 1) : store.paths[j] # store.paths[i] }

C28_StartReportsFailure ==
    (server.pc = "returned" /\ server.mDiffieHellman = 0)
    => server.returnCode # 0

\* No key pair could be generated or loaded, the failure was logged, and
\* Start returned zero all the same.
C28_ReturnsZeroWithoutKey ==
    /\ server.pc = "returned"
    /\ server.mDiffieHellman = 0
    /\ ~server.canGenerate
    /\ "Failed to generate Diffie-Hellman prime!" \in server.critical
    /\ server.returnCode = 0

\* ------------------------------------------------------------------------
\* The connection map (SpecConnections)
\* ------------------------------------------------------------------------

\* C30: every entry of the connection map is an open, usable connection,
\* so that when IsOpen returns true at least one usable connection exists.
C30_EntriesAreOpen ==
    /\ \A t \in Threads : db.mConnections[t] \in {"absent", "open"}
    /\ (db.last.op = "IsOpen" /\ db.last.result)
       => \E t \in Threads : db.mConnections[t] = "open"

\* IsOpen returned true although the only entry of the map is a null
\* pointer: no usable connection exists.
C30_IsOpenWithoutConnection ==
    /\ db.last.op = "IsOpen"
    /\ db.last.result
    /\ \E t \in Threads : db.mConnections[t] = "null"
    /\ \A t \in Threads : db.mConnections[t] # "open"

\* ------------------------------------------------------------------------
\* References of the groups of a zone (SpecZoneData)
\* ------------------------------------------------------------------------

\* The zones GetZoneData returned with partials applied.
ZonesWithPartials ==
    { r \in sdm.returned :
        /\ r.input.applyPartials
        /\ r.zone # NoZone
        /\ GatherPartialIDs(sdm, r.zone, r.input.extraPartialIDs) # {} }

\* C31: in every zone GetZoneData returned with partials applied, each
\* spawn a remaining spawn group names is a spawn of the zone, and each
\* spawn group a remaining spawn location group names is a spawn group of
\* the zone.
C31_GroupsNameWhatExists ==
    \A r \in ZonesWithPartials :
        /\ \A g \in GroupKeys :
               r.zone.spawnGroups[g].present
               => \A k \in r.zone.spawnGroups[g].spawns :
                      r.zone.spawns[k].enemyType # 0
        /\ \A l \in LocationGroupKeys :
               r.zone.spawnLocationGroups[l].present
               => \A g \in r.zone.spawnLocationGroups[l].groupIDs :
                      r.zone.spawnGroups[g].present

\* A zone was returned with a partial applied whose spawn group 2 names
\* the spawns 1 and 2: the zone has no spawn 2 and the group still names
\* it.
C31_GroupNamesMissingSpawn ==
    \E r \in ZonesWithPartials :
        /\ r.zone.spawnGroups[2].present
        /\ 2 \in r.zone.spawnGroups[2].spawns
        /\ r.zone.spawns[2].enemyType = 0

\* ------------------------------------------------------------------------
\* A rejected Register (SpecCache)
\* ------------------------------------------------------------------------

\* Object o is registered and GetObjectByUUID returns it for its UUID.
Retrievable(objs, cache, o) ==
    /\ objs[o].live
    /\ objs[o].holds # 0
    /\ GetObjectByUUID(objs, cache, objs[o].holds) = o

\* A step of an object r that is not registered: a Register of r that is
\* rejected, or the destruction of r.
RejectedOrDestroyed(r) ==
    /\ objects[r].live
    /\ objects[r].holds = 0
    /\ objects'[r] # objects[r]
    /\ \/ ~objects'[r].live
       \/ /\ objects'[r].holds = 0
          /\ objects'[r].mDeleted = objects[r].mDeleted

\* C32: a Register that is rejected for a UUID that is taken, and the
\* destruction of the rejected object afterwards, leave the original
\* object retrievable through GetObjectByUUID.
C32_RejectedLeavesOriginal ==
    [][\A o \in Objs : \A r \in Objs \ {o} :
           (Retrievable(objects, sCached, o) /\ RejectedOrDestroyed(r))
           => Retrievable(objects', sCached', o)]_vars

\* The original object is alive and registered under a UUID for which the
\* cache has no entry any more, and no other object is alive: the object
\* whose Register was rejected took the entry with it.
C32_OriginalNotRetrievable ==
    \E o \in Objs :
        /\ objects[o].live
        /\ ~objects[o].mDeleted
        /\ objects[o].holds # 0
        /\ objects[o].mUUID = objects[o].holds
        /\ GetObjectByUUID(objects, sCached, objects[o].holds) = 0
        /\ \A r \in Objs \ {o} : ~objects[r].live

\* ------------------------------------------------------------------------
\* Deletes that are rolled back (SpecDeletes)
\* ------------------------------------------------------------------------

\* A standard change-set with deletes failed and the table is as it was.
DeletesRolledBack ==
    /\ worker.call = "standard"
    /\ Len(worker.changes.deletes) > 0
    /\ ~worker.result
    /\ db = worker.before

\* C33: when a change-set with deletes failed and was rolled back, every
\* object it was to delete and that was registered is still in the
\* identity cache and is not marked deleted.
C33_RolledBackDeleteKeepsIdentity ==
    DeletesRolledBack
    => \A i \in 1..Len(worker.changes.deletes) :
           LET uuid == worker.changes.deletes[i].uuid
           IN uuid # NullUUID
              => /\ ~objects[ObjectOf(uuid)].mDeleted
                 /\ GetObjectByUUID(objects, sCached, uuid) = ObjectOf(uuid)

\* The DELETE of the object 1 failed and was rolled back: its row is in
\* the table, the object is marked deleted and the cache has lost it.
C33_RowKeptObjectUnregistered ==
    /\ DeletesRolledBack
    /\ worker.fault.kind = "execute"
    /\ worker.changes.deletes = << PersistentObject(1, NoRow, {}) >>
    /\ db[1] # NoRow
    /\ objects[1].mDeleted
    /\ GetObjectByUUID(objects, sCached, 1) = 0

\* ------------------------------------------------------------------------
\* The outgoing queue drains (SpecSendLive) and loses nothing (SpecSend)
\* ------------------------------------------------------------------------

\* Packet k of those appended is in the outgoing queue.
Queued(k) ==
    /\ k <= Len(appended)
    /\ \E i \in 1..Len(conn[1].mOutgoingPackets) :
           conn[1].mOutgoingPackets[i] = appended[k]

\* C34: every packet appended to the outgoing queue is eventually removed
\* from it for sending, whatever its size up to MAX_PACKET_SIZE.
C34_QueueDrains ==
    \A k \in 1..MaxPackets : Queued(k) ~> ~Queued(k)

\* A packet of MAX_PACKET_SIZE - 12 bytes is at the head of the queue with
\* a packet behind it, no send is in flight and every thread is idle.
C34_HeadBlocksQueue ==
    /\ Len(conn[1].mOutgoingPackets) >= 2
    /\ Len(conn[1].mOutgoingPackets[1]) = MAX_PACKET_SIZE - GetHeaderSize - 4
    /\ ~conn[1].mSendingPacket
    /\ conn[1].reactor = << >>
    /\ \A t \in Threads : thread[t].pc = "idle"
    /\ Len(appended) = MaxPackets

\* Packet k of those appended was returned by GetCombinedPackets and the
\* send of what it was returned with has started.
Removed(k) ==
    /\ ~Queued(k)
    /\ \A t \in Threads :
           \A i \in 1..Len(thread[t].packets) :
               thread[t].packets[i] # appended[k]

\* C35: every packet GetCombinedPackets removed from the outgoing queue is
\* among the bytes handed to the socket, in every connection status.
C35_RemovedPacketsAreHanded ==
    \A k \in 1..Len(appended) :
        Removed(k)
        => \E i \in 1..Len(HandedPackets(handed[1])) :
               HandedPackets(handed[1])[i] = appended[k]

\* Two packets were queued on a connection that is not encrypted yet and
\* returned together: the first was handed to the socket, the second was
\* not and is in no queue.
C35_SecondPacketLost ==
    /\ conn[1].mStatus = "WAITING_ENCRYPTION"
    /\ Len(appended) >= 2
    /\ Removed(1)
    /\ Removed(2)
    /\ handed[1] = << appended[1] >>

\* ------------------------------------------------------------------------
\* The pending accept (SpecServer)
\* ------------------------------------------------------------------------

\* C36: while the service of the server runs an asynchronous accept is
\* pending, after every accept that completed: with a connection, with an
\* error code, or with no connection created.
C36_AcceptStaysPending ==
    server.serviceRunning => server.accepting

\* An accept failed with an error code on a server that has its key pair:
\* the service runs and no accept is pending.
C36_NoAcceptAfterError ==
    /\ server.serviceRunning
    /\ server.pc \in {"serving", "ran"}
    /\ server.mDiffieHellman # 0
    /\ server.mDiffieHellman \notin server.freed
    /\ "async_accept error" \in server.errors
    /\ ~server.accepting

\* ------------------------------------------------------------------------
\* The key pair of the server (SpecServer)
\* ------------------------------------------------------------------------

\* SetDiffieHellman has returned and nothing has happened since.
AfterSetDiffieHellman ==
    /\ server.pc = "constructed"
    /\ server.lastSet # NoSet

\* C40: after SetDiffieHellman(k) returns the server has the key pair k,
\* k has not been freed, and the key pair the server had before is the one
\* that was released.
C40_SetInstallsLiveKey ==
    AfterSetDiffieHellman
    => /\ server.mDiffieHellman = server.lastSet.k
       /\ server.lastSet.k \notin server.freed
       /\ server.lastSet.previous # 0
              => server.lastSet.previous \in server.freed

\* SetDiffieHellman was called with a second key pair: the server has it,
\* freed, and the first key pair was not released.
C40_NewKeyFreed ==
    /\ AfterSetDiffieHellman
    /\ server.lastSet.previous # 0
    /\ server.lastSet.k # 0
    /\ server.mDiffieHellman = server.lastSet.k
    /\ server.lastSet.k \in server.freed
    /\ server.lastSet.previous \notin server.freed


\* ------------------------------------------------------------------------
\* Events of one fire time (SpecSchedule)
\* ------------------------------------------------------------------------

\* The event is registered, was not cancelled and still has a callback to
\* come: it never fired, or it is periodic.
AwaitsFiring(e) ==
    /\ e \in timer.used
    /\ e \notin timer.cancelled
    /\ timer.fired[e] = 0 \/ timer.periodic[e]

\* The event is in the schedule or in the hands of ProcessEvents.
Kept(e) ==
    \/ e \in timer.mEvents
    \/ e = timer.cur
    \/ \E i \in 1..Len(timer.periodicals) : timer.periodicals[i] = e

\* C37: every registered event that was not cancelled is kept in the
\* schedule until it fires, also when another registered event has the same
\* fire time.
C37_RegisteredEventsAreKept ==
    \A e \in TimerEvents : AwaitsFiring(e) => Kept(e)

\* Two events of one fire time are registered and not cancelled, and one of
\* them is not in the schedule.
C37_EventOfSameTimeDropped ==
    \E e \in TimerEvents : \E d \in TimerEvents \ {e} :
        /\ AwaitsFiring(e) /\ AwaitsFiring(d)
        /\ timer.time[e] = timer.time[d]
        /\ ~timer.periodic[e] /\ ~timer.periodic[d]
        /\ timer.cancelled = {}
        /\ d \in timer.mEvents
        /\ ~Kept(e)

\* C38: CancelEvent(e) erases no event other than e from the schedule, and
\* deletes e only when it erased e.
C38_CancelTouchesOnlyItsEvent ==
    timer.cancel # NoCancel
    => /\ timer.cancel.erased \in {0, timer.cancel.e}
       /\ timer.cancel.freed => timer.cancel.erased = timer.cancel.e

\* CancelEvent(e) erased another pending event of the same fire time and
\* deleted e.
C38_CancelErasedAnotherEvent ==
    /\ timer.cancel # NoCancel
    /\ timer.cancel.erased \notin {0, timer.cancel.e}
    /\ timer.time[timer.cancel.erased] = timer.time[timer.cancel.e]
    /\ timer.cancel.freed
    /\ timer.cancel.erased \in timer.alive
    /\ timer.cancel.erased \notin timer.mEvents


\* ------------------------------------------------------------------------
\* The dynamic sizes of a binary file (SpecBinaryData)
\* ------------------------------------------------------------------------

\* C39: LoadBinaryData reads at most entryCount * tableCount dynamic sizes
\* and its loop counter never starts over, whatever the header, so that the
\* load terminates.
C39_ReadsAtMostProduct ==
    /\ sdm.reads <= sdm.entryCount * sdm.tableCount
    /\ ~sdm.wrapped

\* The header has a product above 65535: the counter has started over, more
\* dynamic sizes were read than the product, and the loop goes on.
C39_CounterStartsOver ==
    /\ sdm.pc = "sizes"
    /\ sdm.entryCount * sdm.tableCount > U16 - 1
    /\ sdm.wrapped
    /\ sdm.reads > sdm.entryCount * sdm.tableCount
    /\ MoreDynamicSizes(sdm)

====
